---------------------------- MODULE Spec2Model ----------------------------
(***************************************************************************)
(* A model of mikromail: the SMTP client (SMTPClient), the facade          *)
(* (MikroMail.send), the pure helpers they call (validateEmail,            *)
(* sanitizeHeader, encodeHeaderValue, encodeQuotedPrintable) and the       *)
(* Configuration class.                                                    *)
(*                                                                         *)
(* Strings are sequences of UTF-16 code units (naturals), as JavaScript    *)
(* strings are; a literal is written as its code units, with the text in   *)
(* the comment above it.                                                   *)
(*                                                                         *)
(* The client runs from one await to the next in one step; the events of   *)
(* the socket, of the timers and of the resolver are handled only while    *)
(* it awaits. The text and html bodies are kept as their lengths (the     *)
(* header section is kept in full), the HMAC digest of CRAM-MD5 is an      *)
(* opaque hex string, and a response that arrives after its command timed  *)
(* out is not delivered.                                                   *)
(*                                                                         *)
(* Spec and FairSpec are the client driven by MikroMail.send; PureSpec is  *)
(* one call of a pure function on an input string (code units below the   *)
(* surrogates), of the SMTPClient constructor on a configuration object,   *)
(* or of new Configuration(options).get().                                 *)
(***************************************************************************)
EXTENDS Integers, Sequences, FiniteSets, TLC

(***************************************************************************)
(* String primitives (the methods of String.prototype the source calls)   *)
(***************************************************************************)

\* s.startsWith(p)
StartsWith(s, p) ==
    /\ Len(p) <= Len(s)
    /\ SubSeq(s, 1, Len(p)) = p

\* s.endsWith(p)
EndsWith(s, p) ==
    /\ Len(p) <= Len(s)
    /\ SubSeq(s, Len(s) - Len(p) + 1, Len(s)) = p

\* s.includes(p)
Includes(s, p) ==
    \E i \in 1..(Len(s) - Len(p) + 1) : SubSeq(s, i, i + Len(p) - 1) = p

\* the least index >= from at which s holds the code unit c, or 0
RECURSIVE IndexOfFrom(_, _, _)
IndexOfFrom(s, c, from) ==
    IF from > Len(s) THEN 0
    ELSE IF s[from] = c THEN from
    ELSE IndexOfFrom(s, c, from + 1)

\* s.split(c) for a one-character separator c: the pieces, in order
RECURSIVE SplitFrom(_, _, _)
SplitFrom(s, c, from) ==
    LET i == IndexOfFrom(s, c, from) IN
    IF i = 0 THEN <<SubSeq(s, from, Len(s))>>
    ELSE <<SubSeq(s, from, i - 1)>> \o SplitFrom(s, c, i + 1)

Split(s, c) == SplitFrom(s, c, 1)

\* parts.join(sep)
RECURSIVE Join(_, _)
Join(parts, sep) ==
    IF Len(parts) = 0 THEN <<>>
    ELSE IF Len(parts) = 1 THEN parts[1]
    ELSE parts[1] \o sep \o Join(Tail(parts), sep)

Range(s) == {s[i] : i \in 1..Len(s)}

(***************************************************************************)
(* Character classes of the regular expressions in the source              *)
(***************************************************************************)

Digits == 48..57
UpperLetters == 65..90
LowerLetters == 97..122
AlphaNum == Digits \cup UpperLetters \cup LowerLetters

\* [a-zA-Z0-9!#$%&'*+\-/=?^_`{|}~.]
LocalPartChars ==
    AlphaNum \cup {33, 35, 36, 37, 38, 39, 42, 43, 45, 47, 61, 63, 94, 95, 96,
                   123, 124, 125, 126, 46}

\* [a-zA-Z0-9\-]
DomainPartChars == AlphaNum \cup {45}

\* [\r\n\t]
CrLfTab == {13, 10, 9}

\* \s of a JavaScript regular expression, and what trim() removes
JsWhitespace ==
    {9, 10, 11, 12, 13, 32, 160, 5760, 8232, 8233, 8239, 8287, 12288, 65279}
        \cup (8192..8202)

\* c.toUpperCase() on one ASCII code unit
UpperChar(c) == IF c \in LowerLetters THEN c - 32 ELSE c

\* s.toUpperCase() (ASCII)
ToUpperCase(s) == [i \in 1..Len(s) |-> UpperChar(s[i])]

\* c.toLowerCase() on one ASCII code unit
LowerChar(c) == IF c \in UpperLetters THEN c + 32 ELSE c

ToLowerCase(s) == [i \in 1..Len(s) |-> LowerChar(s[i])]

(***************************************************************************)
(* validateEmail                                                           *)
(***************************************************************************)

\* /^[0-9]{1,3}\.[0-9]{1,3}\.[0-9]{1,3}\.[0-9]{1,3}$/.test(s)
ipv4Regex(s) ==
    LET groups == Split(s, 46) IN
    /\ Len(groups) = 4
    /\ \A i \in 1..4 :
        /\ Len(groups[i]) \in 1..3
        /\ \A j \in 1..Len(groups[i]) : groups[i][j] \in Digits

\* /^[a-zA-Z0-9]([a-zA-Z0-9\-]*[a-zA-Z0-9])?$/.test(part)
domainPartRegex(part) ==
    /\ Len(part) >= 1
    /\ part[1] \in AlphaNum
    /\ part[Len(part)] \in AlphaNum
    /\ \A j \in 1..Len(part) : part[j] \in DomainPartChars

\* the checks on the local part
localPartOk(localPart) ==
    /\ Len(localPart) >= 1
    /\ Len(localPart) <= 64
    /\ ~StartsWith(localPart, <<46>>)
    /\ ~EndsWith(localPart, <<46>>)
    /\ ~Includes(localPart, <<46, 46>>)
    /\ \A j \in 1..Len(localPart) : localPart[j] \in LocalPartChars

\* the checks on the domain
domainOk(domain) ==
    /\ Len(domain) >= 1
    /\ Len(domain) <= 255
    /\ IF StartsWith(domain, <<91>>) /\ EndsWith(domain, <<93>>)
       THEN LET ipContent == SubSeq(domain, 2, Len(domain) - 1) IN
            \* "IPv6:"
            \/ StartsWith(ipContent, <<73, 80, 118, 54, 58>>)
            \/ ipv4Regex(ipContent)
       ELSE LET domainParts == Split(domain, 46) IN
            /\ ~StartsWith(domain, <<46>>)
            /\ ~EndsWith(domain, <<46>>)
            /\ ~Includes(domain, <<46, 46>>)
            /\ Len(domainParts) >= 2
            /\ Len(domainParts[Len(domainParts)]) >= 2
            /\ \A k \in 1..Len(domainParts) :
                /\ Len(domainParts[k]) >= 1
                /\ Len(domainParts[k]) <= 63
                /\ domainPartRegex(domainParts[k])

\* const [localPart, domain] = email.split('@'): the first two pieces only;
\* a missing second piece is undefined, which fails the !domain test
validateEmail(email) ==
    LET pieces == Split(email, 64) IN
    /\ localPartOk(pieces[1])
    /\ Len(pieces) >= 2
    /\ domainOk(pieces[2])

(***************************************************************************)
(* Header value encoding and sanitization                                  *)
(***************************************************************************)

\* one hexadecimal digit, upper case
HexDigit(d) == IF d < 10 THEN 48 + d ELSE 55 + d

\* n.toString(16).toUpperCase()
RECURSIVE ToHexUpper(_)
ToHexUpper(n) ==
    IF n < 16 THEN <<HexDigit(n)>>
    ELSE ToHexUpper(n \div 16) \o <<HexDigit(n % 16)>>

\* the replacement of one non-ASCII code unit: '=' and its hex code, padded to 2
EncodeUnit(c) ==
    LET hex == ToHexUpper(c) IN
    <<61>> \o (IF Len(hex) < 2 THEN <<48>> \o hex ELSE hex)

\* the concatenation of the strings ss[lo], ..., ss[hi]
RECURSIVE Flatten(_, _, _)
Flatten(ss, lo, hi) ==
    IF lo > hi THEN <<>>
    ELSE IF lo = hi THEN ss[lo]
    ELSE LET mid == (lo + hi) \div 2
         IN  Flatten(ss, lo, mid) \o Flatten(ss, mid + 1, hi)

\* value.replace(/[^\x00-\x7F]/g, ...): every code unit above 127 is replaced
ReplaceNonAscii(s) ==
    Flatten([i \in 1..Len(s) |->
                IF s[i] > 127 THEN EncodeUnit(s[i]) ELSE <<s[i]>>],
            1, Len(s))

\* "=?UTF-8?Q?" ... "?="
encodeHeaderValue(value) ==
    IF \A i \in 1..Len(value) : value[i] <= 127
    THEN value
    ELSE <<61, 63, 85, 84, 70, 45, 56, 63, 81, 63>>
         \o ReplaceNonAscii(value) \o <<63, 61>>

\* s.replace(/[\r\n\t]+/g, ' '): every maximal run becomes one space
\* (the space stands where the run ends)
ReplaceCrLfTabRuns(s) ==
    Flatten([i \in 1..Len(s) |->
                IF s[i] \notin CrLfTab THEN <<s[i]>>
                ELSE IF i < Len(s) /\ s[i + 1] \in CrLfTab THEN <<>>
                ELSE <<32>>],
            1, Len(s))

\* s.replace(/\s{2,}/g, ' '): a run of two or more becomes one space, a
\* single whitespace character stays as it is
CollapseWhitespace(s) ==
    LET white(i) == i >= 1 /\ i <= Len(s) /\ s[i] \in JsWhitespace IN
    Flatten([i \in 1..Len(s) |->
                IF ~white(i) THEN <<s[i]>>
                ELSE IF ~white(i - 1) /\ ~white(i + 1) THEN <<s[i]>>
                ELSE IF white(i + 1) THEN <<>>
                ELSE <<32>>],
            1, Len(s))

\* s.trim()
RECURSIVE TrimStart(_)
TrimStart(s) ==
    IF Len(s) = 0 \/ s[1] \notin JsWhitespace THEN s ELSE TrimStart(Tail(s))

RECURSIVE TrimEnd(_)
TrimEnd(s) ==
    IF Len(s) = 0 \/ s[Len(s)] \notin JsWhitespace THEN s
    ELSE TrimEnd(SubSeq(s, 1, Len(s) - 1))

Trim(s) == TrimEnd(TrimStart(s))

\* sanitizeHeader without its first replacement
sanitizeHeader_keepCrLfTab(value) ==
    encodeHeaderValue(Trim(CollapseWhitespace(value)))

sanitizeHeader(value) ==
    encodeHeaderValue(Trim(CollapseWhitespace(ReplaceCrLfTabRuns(value))))

(***************************************************************************)
(* Quoted-printable body encoding                                          *)
(***************************************************************************)

\* text.replace(/\r?\n/g, '\r\n'): every LF, with the CR before it if there
\* is one, becomes CR LF
NormalizeLineEndings(s) ==
    Flatten([i \in 1..Len(s) |->
                IF s[i] = 10 /\ (i = 1 \/ s[i - 1] # 13) THEN <<13, 10>>
                ELSE <<s[i]>>],
            1, Len(s))

\* result.replace(/=/g, '=3D')
ReplaceEquals(s) ==
    Flatten([i \in 1..Len(s) |->
                IF s[i] = 61 THEN <<61, 51, 68>> ELSE <<s[i]>>],
            1, Len(s))

\* the UTF-8 bytes of one code unit below the surrogates
Utf8Unit(c) ==
    IF c < 128 THEN <<c>>
    ELSE IF c < 2048 THEN <<192 + (c \div 64), 128 + (c % 64)>>
    ELSE <<224 + (c \div 4096), 128 + ((c \div 64) % 64), 128 + (c % 64)>>

\* new TextEncoder().encode(s), for s without surrogates
TextEncoderEncode(s) ==
    Flatten([i \in 1..Len(s) |-> Utf8Unit(s[i])], 1, Len(s))

\* the chunk the loop of encodeQuotedPrintable makes of one byte
QpChunk(byte) ==
    IF (byte >= 33 /\ byte <= 126 /\ byte # 61) \/ byte = 32 THEN <<byte>>
    ELSE IF byte = 13 \/ byte = 10 THEN <<byte>>
    ELSE EncodeUnit(byte)

\* one turn of the loop of encodeQuotedPrintable, lineLength being the
\* value of the counter before it: what is appended to encoded, and the
\* value of the counter after it
QpTurn(byte, lineLength) ==
    LET chunk == QpChunk(byte)
        afterLf == IF byte = 10 THEN 0 ELSE lineLength
        softBreak == /\ afterLf + Len(chunk) > 75
                     /\ ~(byte = 13 \/ byte = 10)
        before == IF softBreak THEN 0 ELSE afterLf
    IN  [encoded |-> (IF softBreak THEN <<61, 13, 10>> ELSE <<>>) \o chunk,
         lineLength |-> before + Len(chunk)]

\* the turns of the loop for the bytes lo..hi, in order
RECURSIVE QpLoop(_, _, _, _)
QpLoop(utf8Bytes, lo, hi, lineLength) ==
    IF lo > hi THEN [encoded |-> <<>>, lineLength |-> lineLength]
    ELSE IF lo = hi THEN QpTurn(utf8Bytes[lo], lineLength)
    ELSE LET mid == (lo + hi) \div 2
             first == QpLoop(utf8Bytes, lo, mid, lineLength)
             rest == QpLoop(utf8Bytes, mid + 1, hi, first.lineLength)
         IN  [encoded |-> first.encoded \o rest.encoded,
              lineLength |-> rest.lineLength]

\* encodeQuotedPrintable if the line counter started at 1
encodeQuotedPrintable_from1(text) ==
    LET utf8Bytes == TextEncoderEncode(ReplaceEquals(NormalizeLineEndings(text)))
    IN  QpLoop(utf8Bytes, 1, Len(utf8Bytes), 1).encoded

encodeQuotedPrintable(text) ==
    LET utf8Bytes == TextEncoderEncode(ReplaceEquals(NormalizeLineEndings(text)))
    IN  QpLoop(utf8Bytes, 1, Len(utf8Bytes), 0).encoded

(***************************************************************************)
(* Texts of the error messages of the source                               *)
(***************************************************************************)

\* "SMTP Error: "
S_SmtpError == <<83, 77, 84, 80, 32, 69, 114, 114, 111, 114, 58, 32>>

\* "Authentication failed"
S_AuthFailed ==
    <<65, 117, 116, 104, 101, 110, 116, 105, 99, 97, 116, 105, 111, 110, 32,
      102, 97, 105, 108, 101, 100>>

\* "5."
S_5dot == <<53, 46>>

\* "certificate"
S_certificate == <<99, 101, 114, 116, 105, 102, 105, 99, 97, 116, 101>>

\* "Not connected to SMTP server"
S_NotConnected ==
    <<78, 111, 116, 32, 99, 111, 110, 110, 101, 99, 116, 101, 100, 32, 116,
      111, 32, 83, 77, 84, 80, 32, 115, 101, 114, 118, 101, 114>>

\* "Command timeout after 10000ms: "
S_CmdTimeout ==
    <<67, 111, 109, 109, 97, 110, 100, 32, 116, 105, 109, 101, 111, 117, 116,
      32, 97, 102, 116, 101, 114, 32, 49, 48, 48, 48, 48, 109, 115, 58, 32>>

\* "Connection timeout after 10000ms"
S_ConnTimeout ==
    <<67, 111, 110, 110, 101, 99, 116, 105, 111, 110, 32, 116, 105, 109, 101,
      111, 117, 116, 32, 97, 102, 116, 101, 114, 32, 49, 48, 48, 48, 48, 109,
      115>>

\* "SMTP connection error: "
S_ConnError ==
    <<83, 77, 84, 80, 32, 99, 111, 110, 110, 101, 99, 116, 105, 111, 110, 32,
      101, 114, 114, 111, 114, 58, 32>>

\* "Unexpected server greeting: "
S_BadGreeting ==
    <<85, 110, 101, 120, 112, 101, 99, 116, 101, 100, 32, 115, 101, 114, 118,
      101, 114, 32, 103, 114, 101, 101, 116, 105, 110, 103, 58, 32>>

\* "Connection closed before initialization completed"
S_ClosedEarly ==
    <<67, 111, 110, 110, 101, 99, 116, 105, 111, 110, 32, 99, 108, 111, 115,
      101, 100, 32, 98, 101, 102, 111, 114, 101, 32, 105, 110, 105, 116, 105,
      97, 108, 105, 122, 97, 116, 105, 111, 110, 32, 99, 111, 109, 112, 108,
      101, 116, 101, 100>>

\* "STARTTLS error: "
S_StartTlsError ==
    <<83, 84, 65, 82, 84, 84, 76, 83, 32, 101, 114, 114, 111, 114, 58, 32>>

\* "TLS certificate verification failed: "
S_CertFailed ==
    <<84, 76, 83, 32, 99, 101, 114, 116, 105, 102, 105, 99, 97, 116, 101, 32,
      118, 101, 114, 105, 102, 105, 99, 97, 116, 105, 111, 110, 32, 102, 97,
      105, 108, 101, 100, 58, 32>>

\* "Email size exceeds maximum allowed"
S_TooBig ==
    <<69, 109, 97, 105, 108, 32, 115, 105, 122, 101, 32, 101, 120, 99, 101,
      101, 100, 115, 32, 109, 97, 120, 105, 109, 117, 109, 32, 97, 108, 108,
      111, 119, 101, 100>>

\* "Missing required email parameters (from, to, subject, and either text or html)"
S_Missing ==
    <<77, 105, 115, 115, 105, 110, 103, 32, 114, 101, 113, 117, 105, 114,
      101, 100, 32, 101, 109, 97, 105, 108, 32, 112, 97, 114, 97, 109, 101,
      116, 101, 114, 115, 32, 40, 102, 114, 111, 109, 44, 32, 116, 111, 44,
      32, 115, 117, 98, 106, 101, 99, 116, 44, 32, 97, 110, 100, 32, 101,
      105, 116, 104, 101, 114, 32, 116, 101, 120, 116, 32, 111, 114, 32, 104,
      116, 109, 108, 41>>

\* "Invalid email address format"
S_Invalid ==
    <<73, 110, 118, 97, 108, 105, 100, 32, 101, 109, 97, 105, 108, 32, 97,
      100, 100, 114, 101, 115, 115, 32, 102, 111, 114, 109, 97, 116>>

\* "Maximum retry count exceeded"
S_MaxRetry ==
    <<77, 97, 120, 105, 109, 117, 109, 32, 114, 101, 116, 114, 121, 32, 99,
      111, 117, 110, 116, 32, 101, 120, 99, 101, 101, 100, 101, 100>>

(***************************************************************************)
(* Command verbs and header texts of the source                            *)
(***************************************************************************)

\* "EHLO "
C_EHLO == <<69, 72, 76, 79, 32>>

\* "STARTTLS"
C_STARTTLS == <<83, 84, 65, 82, 84, 84, 76, 83>>

\* "AUTH PLAIN "
C_AUTHPLAIN == <<65, 85, 84, 72, 32, 80, 76, 65, 73, 78, 32>>

\* "AUTH LOGIN"
C_AUTHLOGIN == <<65, 85, 84, 72, 32, 76, 79, 71, 73, 78>>

\* "AUTH CRAM-MD5"
C_AUTHCRAM == <<65, 85, 84, 72, 32, 67, 82, 65, 77, 45, 77, 68, 53>>

\* "MAIL FROM:<"
C_MAIL == <<77, 65, 73, 76, 32, 70, 82, 79, 77, 58, 60>>

\* "RCPT TO:<"
C_RCPT == <<82, 67, 80, 84, 32, 84, 79, 58, 60>>

\* "DATA"
C_DATA == <<68, 65, 84, 65>>

\* "RSET"
C_RSET == <<82, 83, 69, 84>>

\* "QUIT"
C_QUIT == <<81, 85, 73, 84>>

\* "From: "
T_From == <<70, 114, 111, 109, 58, 32>>

\* "To: "
T_To == <<84, 111, 58, 32>>

\* "Subject: "
T_Subject == <<83, 117, 98, 106, 101, 99, 116, 58, 32>>

\* "Message-ID: "
T_MsgId == <<77, 101, 115, 115, 97, 103, 101, 45, 73, 68, 58, 32>>

\* "Date: "
T_Date == <<68, 97, 116, 101, 58, 32>>

\* "MIME-Version: 1.0"
T_Mime ==
    <<77, 73, 77, 69, 45, 86, 101, 114, 115, 105, 111, 110, 58, 32, 49, 46,
      48>>

\* "Cc: "
T_Cc == <<67, 99, 58, 32>>

\* "Reply-To: "
T_ReplyTo == <<82, 101, 112, 108, 121, 45, 84, 111, 58, 32>>

\* "localhost"
T_localhost == <<108, 111, 99, 97, 108, 104, 111, 115, 116>>

\* "000102030405060708090a0b0c0d0e0f"
T_hexA ==
    <<48, 48, 48, 49, 48, 50, 48, 51, 48, 52, 48, 53, 48, 54, 48, 55, 48, 56,
      48, 57, 48, 97, 48, 98, 48, 99, 48, 100, 48, 101, 48, 102>>

\* "0123456789abcdef0123456789abcdea"
T_hexB ==
    <<48, 49, 50, 51, 52, 53, 54, 55, 56, 57, 97, 98, 99, 100, 101, 102, 48,
      49, 50, 51, 52, 53, 54, 55, 56, 57, 97, 98, 99, 100, 101, 97>>

\* "Tue, 03 Nov 2026 12:00:00 GMT"
T_date ==
    <<84, 117, 101, 44, 32, 48, 51, 32, 78, 111, 118, 32, 50, 48, 50, 54, 32,
      49, 50, 58, 48, 48, 58, 48, 48, 32, 71, 77, 84>>

\* "SMTP Command: "
S_LogCommand ==
    <<83, 77, 84, 80, 32, 67, 111, 109, 109, 97, 110, 100, 58, 32>>

\* "[Credentials hidden]"
S_Hidden ==
    <<91, 67, 114, 101, 100, 101, 110, 116, 105, 97, 108, 115, 32, 104, 105,
      100, 100, 101, 110, 93>>

\* "AUTH"
T_AUTH == <<65, 85, 84, 72>>

\* "AUTH "
T_AUTHsp == <<65, 85, 84, 72, 32>>

\* "PLAIN"
T_PLAIN == <<80, 76, 65, 73, 78>>

\* "CRAM-MD5"
T_CRAM == <<67, 82, 65, 77, 45, 77, 68, 53>>

\* "LOGIN"
T_LOGIN == <<76, 79, 71, 73, 78>>

\* "0f0e0d0c0b0a09080706050403020100"
T_digest ==
    <<48, 102, 48, 101, 48, 100, 48, 99, 48, 98, 48, 97, 48, 57, 48, 56, 48,
      55, 48, 54, 48, 53, 48, 52, 48, 51, 48, 50, 48, 49, 48, 48>>

\* "Content-Type: text/plain; charset=utf-8"
T_CtPlain ==
    <<67, 111, 110, 116, 101, 110, 116, 45, 84, 121, 112, 101, 58, 32, 116,
      101, 120, 116, 47, 112, 108, 97, 105, 110, 59, 32, 99, 104, 97, 114,
      115, 101, 116, 61, 117, 116, 102, 45, 56>>

\* "Content-Type: text/html; charset=utf-8"
T_CtHtml ==
    <<67, 111, 110, 116, 101, 110, 116, 45, 84, 121, 112, 101, 58, 32, 116,
      101, 120, 116, 47, 104, 116, 109, 108, 59, 32, 99, 104, 97, 114, 115,
      101, 116, 61, 117, 116, 102, 45, 56>>

\* "Content-Transfer-Encoding: quoted-printable"
T_Cte ==
    <<67, 111, 110, 116, 101, 110, 116, 45, 84, 114, 97, 110, 115, 102, 101,
      114, 45, 69, 110, 99, 111, 100, 105, 110, 103, 58, 32, 113, 117, 111,
      116, 101, 100, 45, 112, 114, 105, 110, 116, 97, 98, 108, 101>>

\* "Content-Type: multipart/alternative; boundary=""
T_CtMulti ==
    <<67, 111, 110, 116, 101, 110, 116, 45, 84, 121, 112, 101, 58, 32, 109,
      117, 108, 116, 105, 112, 97, 114, 116, 47, 97, 108, 116, 101, 114, 110,
      97, 116, 105, 118, 101, 59, 32, 98, 111, 117, 110, 100, 97, 114, 121,
      61, 34>>

\* "----=_NextPart_"
T_NextPart ==
    <<45, 45, 45, 45, 61, 95, 78, 101, 120, 116, 80, 97, 114, 116, 95>>

\* "00112233445566778899aabb"
T_bhex ==
    <<48, 48, 49, 49, 50, 50, 51, 51, 52, 52, 53, 53, 54, 54, 55, 55, 56, 56,
      57, 57, 97, 97, 98, 98>>

\* "bcc:"
T_bccColon == <<98, 99, 99, 58>>

(***************************************************************************)
(* The addresses, texts and header names the messages are built from       *)
(***************************************************************************)

\* "s@x.cc"
A_sender == <<115, 64, 120, 46, 99, 99>>

\* "r@y.cc"
A_rcpt == <<114, 64, 121, 46, 99, 99>>

\* "d@z.cc"
A_cc == <<100, 64, 122, 46, 99, 99>>

\* "b@z.cc"
A_bcc1 == <<98, 64, 122, 46, 99, 99>>

\* "a@x.cc"
A_bcc2 == <<97, 64, 120, 46, 99, 99>>

\* "bad"
A_bad == <<98, 97, 100>>

\* "pw"
S_pw == <<112, 119>>

\* "Hi"
S_Hi == <<72, 105>>

\* "Message-ID: x"
S_MsgIdSubject ==
    <<77, 101, 115, 115, 97, 103, 101, 45, 73, 68, 58, 32, 120>>

\* "h"
S_host == <<104>>

\* "Bcc"
H_Bcc == <<66, 99, 99>>

\* "X-Note"
H_XNote == <<88, 45, 78, 111, 116, 101>>

\* "X Bad"
H_bad == <<88, 32, 66, 97, 100>>

\* "MESSAGE-ID"
H_MESSAGE_ID == <<77, 69, 83, 83, 65, 71, 69, 45, 73, 68>>

\* "X_N"
H_under == <<88, 95, 78>>

\* "n"
V_note == <<110>>

(***************************************************************************)
(* What the server and the network can send                                *)
(***************************************************************************)

\* "421 busy"
R_421 == <<52, 50, 49, 32, 98, 117, 115, 121>>

\* "452 4.5.3 full"
R_452 == <<52, 53, 50, 32, 52, 46, 53, 46, 51, 32, 102, 117, 108, 108>>

\* "550 no"
R_550 == <<53, 53, 48, 32, 110, 111>>

\* "550 5.1.1 no"
R_550e == <<53, 53, 48, 32, 53, 46, 49, 46, 49, 32, 110, 111>>

\* "535 bad"
R_535 == <<53, 51, 53, 32, 98, 97, 100>>

\* "535 Authentication failed"
R_535af ==
    <<53, 51, 53, 32, 65, 117, 116, 104, 101, 110, 116, 105, 99, 97, 116,
      105, 111, 110, 32, 102, 97, 105, 108, 101, 100>>

\* "220 hi"
G_220 == <<50, 50, 48, 32, 104, 105>>

\* "421 busy"
G_421 == <<52, 50, 49, 32, 98, 117, 115, 121>>

\* "554 5.3.2 off"
G_554 == <<53, 53, 52, 32, 53, 46, 51, 46, 50, 32, 111, 102, 102>>

\* "250-h"
L_host == <<50, 53, 48, 45, 104>>

\* "250-STARTTLS"
L_tlsCont == <<50, 53, 48, 45, 83, 84, 65, 82, 84, 84, 76, 83>>

\* "250 STARTTLS"
L_tlsEnd == <<50, 53, 48, 32, 83, 84, 65, 82, 84, 84, 76, 83>>

\* "250-AUTH LOGIN PLAIN"
L_authCont ==
    <<50, 53, 48, 45, 65, 85, 84, 72, 32, 76, 79, 71, 73, 78, 32, 80, 76, 65,
      73, 78>>

\* "250 AUTH PLAIN LOGIN"
L_authEnd ==
    <<50, 53, 48, 32, 65, 85, 84, 72, 32, 80, 76, 65, 73, 78, 32, 76, 79, 71,
      73, 78>>

\* "250 auth cram-md5 login"
L_authCramEnd ==
    <<50, 53, 48, 32, 97, 117, 116, 104, 32, 99, 114, 97, 109, 45, 109, 100,
      53, 32, 108, 111, 103, 105, 110>>

\* "connect ECONNREFUSED"
E_refused ==
    <<99, 111, 110, 110, 101, 99, 116, 32, 69, 67, 79, 78, 78, 82, 69, 70,
      85, 83, 69, 68>>

\* "certificate has expired"
E_cert ==
    <<99, 101, 114, 116, 105, 102, 105, 99, 97, 116, 101, 32, 104, 97, 115,
      32, 101, 120, 112, 105, 114, 101, 100>>

\* "wrong version number"
E_proto ==
    <<119, 114, 111, 110, 103, 32, 118, 101, 114, 115, 105, 111, 110, 32,
      110, 117, 109, 98, 101, 114>>

\* "SELF_SIGNED_CERT_IN_CHAIN"
E_selfsigned ==
    <<83, 69, 76, 70, 95, 83, 73, 71, 78, 69, 68, 95, 67, 69, 82, 84, 95, 73,
      78, 95, 67, 72, 65, 73, 78>>

(***************************************************************************)
(* Buffer.from(s).toString('base64') for ASCII text                        *)
(***************************************************************************)

\* the code unit of the base64 digit of value v (0..63)
Base64Digit(v) ==
    IF v < 26 THEN 65 + v
    ELSE IF v < 52 THEN 97 + (v - 26)
    ELSE IF v < 62 THEN 48 + (v - 52)
    ELSE IF v = 62 THEN 43 ELSE 47

RECURSIVE Base64(_)
Base64(bytes) ==
    IF Len(bytes) = 0 THEN <<>>
    ELSE IF Len(bytes) = 1 THEN
        <<Base64Digit(bytes[1] \div 4), Base64Digit((bytes[1] % 4) * 16),
          61, 61>>
    ELSE IF Len(bytes) = 2 THEN
        <<Base64Digit(bytes[1] \div 4),
          Base64Digit((bytes[1] % 4) * 16 + bytes[2] \div 16),
          Base64Digit((bytes[2] % 16) * 4), 61>>
    ELSE
        <<Base64Digit(bytes[1] \div 4),
          Base64Digit((bytes[1] % 4) * 16 + bytes[2] \div 16),
          Base64Digit((bytes[2] % 16) * 4 + bytes[3] \div 64),
          Base64Digit(bytes[3] % 64)>>
        \o Base64(SubSeq(bytes, 4, Len(bytes)))

(***************************************************************************)
(* Server responses: a response is the sequence of its lines (the          *)
(* response data split at CRLF, the final empty piece dropped)             *)
(***************************************************************************)

CRLF == <<13, 10>>

\* /^(\d{3})(.?)/ on the last line, and matches[2] !== '-': the response is
\* complete
IsCompleteResponse(lines) ==
    /\ Len(lines) >= 1
    /\ LET lastLine == lines[Len(lines)] IN
        /\ Len(lastLine) >= 3
        /\ \A i \in 1..3 : lastLine[i] \in Digits
        /\ (Len(lastLine) >= 4 => lastLine[4] # 45)

\* matches[1]: the reply code of the last line
ResponseCode(lines) == SubSeq(lines[Len(lines)], 1, 3)

\* responseData.trim()
ResponseText(lines) == Trim(Join(lines, CRLF))

\* line.match(/^\d{3}/) && line.charAt(3) === ' '
IsCapabilityLine(line) ==
    /\ Len(line) >= 4
    /\ \A i \in 1..3 : line[i] \in Digits
    /\ line[4] = 32

\* the loop of parseCapabilities from index i (0-based i = 1 is lines[2])
RECURSIVE CapabilitiesFrom(_, _)
CapabilitiesFrom(lines, i) ==
    IF i > Len(lines) THEN <<>>
    ELSE (IF IsCapabilityLine(lines[i])
          THEN <<ToUpperCase(SubSeq(lines[i], 5, Len(lines[i])))>>
          ELSE <<>>)
         \o CapabilitiesFrom(lines, i + 1)

\* the value parseCapabilities assigns to serverCapabilities
parseCapabilities(ehloResponse) == CapabilitiesFrom(ehloResponse, 2)

\* this.serverCapabilities.includes('STARTTLS')
IncludesSTARTTLS(capabilities) ==
    \E i \in 1..Len(capabilities) : capabilities[i] = C_STARTTLS

\* the first element of caps that starts with 'AUTH ', or <<>> (undefined)
RECURSIVE FindAuthLine(_)
FindAuthLine(caps) ==
    IF Len(caps) = 0 THEN <<>>
    ELSE IF StartsWith(caps[1], T_AUTHsp) THEN caps[1]
    ELSE FindAuthLine(Tail(caps))

getBestAuthMethod(caps) ==
    LET capabilities == [i \in 1..Len(caps) |-> Split(caps[i], 32)[1]]
        authLine == FindAuthLine(caps)
        methods == Tail(Split(authLine, 32))
    IN  IF (\E i \in 1..Len(capabilities) : capabilities[i] = T_AUTH)
           /\ authLine # <<>>
        THEN IF T_CRAM \in Range(methods) THEN "CRAM-MD5"
             ELSE IF T_LOGIN \in Range(methods) THEN "LOGIN"
             ELSE "PLAIN"
        ELSE "PLAIN"

(***************************************************************************)
(* Message composition                                                     *)
(*                                                                         *)
(* A message (EmailOptions) is a record: from, to, replyTo and subject are *)
(* strings (<<>> when missing); cc and bcc are [given, list] (given is     *)
(* FALSE when the field is undefined), and so is toArray, given when the   *)
(* value of to is an array (to is then <<>>); headers is the sequence of   *)
(* the [name, value] entries of the custom headers; textLen and htmlLen    *)
(* are the lengths of encodeQuotedPrintable(text) and of                   *)
(* encodeQuotedPrintable(html), 0 when the field is missing or empty.      *)
(***************************************************************************)

\* const domain = this.config.user.split('@')[1] || 'localhost'
MessageIdDomain(user) ==
    LET pieces == Split(user, 64) IN
    IF Len(pieces) >= 2 /\ pieces[2] # <<>> THEN pieces[2] ELSE T_localhost

\* `<${random}@${domain}>`, random being the hex of 16 random bytes
generateMessageId(user, random) ==
    <<60>> \o random \o <<64>> \o MessageIdDomain(user) \o <<62>>

\* `----=_NextPart_${crypto.randomBytes(12).toString('hex')}`
generateBoundary == T_NextPart \o T_bhex

\* /^[a-zA-Z0-9-]+$/.test(name)
HeaderNameOk(name) ==
    /\ Len(name) >= 1
    /\ \A i \in 1..Len(name) : name[i] \in DomainPartChars

\* from, to, cc, bcc, subject, date, message-id
ReservedHeaderNames ==
    {<<102, 114, 111, 109>>, <<116, 111>>, <<99, 99>>, <<98, 99, 99>>,
     <<115, 117, 98, 106, 101, 99, 116>>, <<100, 97, 116, 101>>,
     <<109, 101, 115, 115, 97, 103, 101, 45, 105, 100>>}

\* the reserved-name test without the i flag
IsReservedHeaderName_caseSensitive(name) == name \in ReservedHeaderNames

\* /^(from|to|cc|bcc|subject|date|message-id)$/i.test(name)
IsReservedHeaderName(name) == ToLowerCase(name) \in ReservedHeaderNames

\* the loop over Object.entries(options.headers)
RECURSIVE CustomHeaderLines(_)
CustomHeaderLines(entries) ==
    IF Len(entries) = 0 THEN <<>>
    ELSE (IF HeaderNameOk(entries[1].name)
             /\ ~IsReservedHeaderName(entries[1].name)
          THEN <<entries[1].name \o <<58, 32>>
                 \o sanitizeHeader(entries[1].value)>>
          ELSE <<>>)
         \o CustomHeaderLines(Tail(entries))

\* createEmailHeaders if it also wrote the bcc list as a header
createEmailHeaders_withBcc(o, user, random) ==
    LET from == IF o.from # <<>> THEN o.from ELSE user IN
    <<T_From \o sanitizeHeader(from),
      T_To \o sanitizeHeader(o.to),
      T_Subject \o sanitizeHeader(o.subject),
      T_MsgId \o generateMessageId(user, random),
      T_Date \o T_date,
      T_Mime>>
    \o (IF o.cc.given
        THEN <<T_Cc \o sanitizeHeader(Join(o.cc.list, <<44, 32>>))>>
        ELSE <<>>)
    \o (IF o.bcc.given
        THEN <<H_Bcc \o <<58, 32>>
               \o sanitizeHeader(Join(o.bcc.list, <<44, 32>>))>>
        ELSE <<>>)
    \o (IF o.replyTo # <<>>
        THEN <<T_ReplyTo \o sanitizeHeader(o.replyTo)>>
        ELSE <<>>)
    \o CustomHeaderLines(o.headers)

\* the header lines, in order
createEmailHeaders(o, user, random) ==
    LET from == IF o.from # <<>> THEN o.from ELSE user IN
    <<T_From \o sanitizeHeader(from),
      T_To \o sanitizeHeader(o.to),
      T_Subject \o sanitizeHeader(o.subject),
      T_MsgId \o generateMessageId(user, random),
      T_Date \o T_date,
      T_Mime>>
    \o (IF o.cc.given
        THEN <<T_Cc \o sanitizeHeader(Join(o.cc.list, <<44, 32>>))>>
        ELSE <<>>)
    \o (IF o.replyTo # <<>>
        THEN <<T_ReplyTo \o sanitizeHeader(o.replyTo)>>
        ELSE <<>>)
    \o CustomHeaderLines(o.headers)

\* the header section of createMultipartEmail: the common headers and the
\* content headers of the chosen form
MessageHeaders(o, user, random) ==
    createEmailHeaders(o, user, random)
    \o (IF o.htmlLen > 0 /\ o.textLen > 0
        THEN <<T_CtMulti \o generateBoundary \o <<34>>>>
        ELSE IF o.htmlLen > 0 THEN <<T_CtHtml, T_Cte>>
        ELSE <<T_CtPlain, T_Cte>>)

\* emailContent.length for the message createMultipartEmail returns
EmailContentLength(o, user, random) ==
    LET head == Len(Join(MessageHeaders(o, user, random), CRLF))
        b == Len(generateBoundary)
    IN  IF o.htmlLen > 0 /\ o.textLen > 0
        THEN head
             + (4 + 2 + b + 2 + Len(T_CtPlain) + 2 + Len(T_Cte) + 4) + o.textLen
             + (4 + 2 + b + 2 + Len(T_CtHtml) + 2 + Len(T_Cte) + 4) + o.htmlLen
             + (4 + 2 + b + 2 + 2)
        ELSE IF o.htmlLen > 0 THEN head + 4 + o.htmlLen
        ELSE head + 4 + o.textLen

\* private readonly maxEmailSize = 10485760
maxEmailSize == 10485760

(***************************************************************************)
(* Inputs: the configurations and the messages                             *)
(***************************************************************************)

\* config.maxRetries ranges over 0..MaxRetriesBound
MaxRetriesBound == 1

NoList == [given |-> FALSE, list |-> <<>>]
ListOf(l) == [given |-> TRUE, list |-> l]

\* a plain text message from sender to rcpt; toArray is given when the
\* value of `to` is an array instead of a string
BaseMessage ==
    [from |-> A_sender, to |-> A_rcpt, toArray |-> NoList,
     cc |-> NoList, bcc |-> NoList,
     replyTo |-> <<>>, subject |-> S_Hi, textLen |-> 5, htmlLen |-> 0,
     headers |-> <<>>]

\* the messages that pass validation
GoodMessages ==
    { \* from defaulted to config.user
      [BaseMessage EXCEPT !.from = <<>>],
      \* cc and bcc with an invalid entry each, custom headers, both bodies
      [BaseMessage EXCEPT !.cc = ListOf(<<A_cc, A_bad>>),
                          !.bcc = ListOf(<<A_bcc1, A_bad, A_bcc2>>),
                          !.replyTo = A_sender,
                          !.htmlLen = 7,
                          !.headers = <<[name |-> H_XNote, value |-> V_note],
                                        [name |-> H_Bcc, value |-> A_bcc1],
                                        [name |-> H_bad, value |-> V_note],
                                        [name |-> H_MESSAGE_ID,
                                         value |-> V_note],
                                        [name |-> H_under, value |-> V_note]>>],
      \* a bcc address listed twice and the to address listed as bcc
      [BaseMessage EXCEPT !.bcc = ListOf(<<A_bcc1, A_bcc1, A_rcpt>>)],
      \* a message over the size limit
      [BaseMessage EXCEPT !.textLen = maxEmailSize,
                          !.bcc = ListOf(<<A_bcc2>>)],
      \* a subject that reads like a header line
      [BaseMessage EXCEPT !.subject = S_MsgIdSubject] }

\* the messages that fail validation
BadMessages ==
    { [BaseMessage EXCEPT !.to = <<>>],
      [BaseMessage EXCEPT !.subject = <<>>],
      [BaseMessage EXCEPT !.textLen = 0],
      [BaseMessage EXCEPT !.from = A_bad],
      [BaseMessage EXCEPT !.to = A_bad] }

\* the messages whose `to` is an array of addresses
ListMessages ==
    { [BaseMessage EXCEPT !.to = <<>>, !.toArray = ListOf(<<A_rcpt>>)],
      [BaseMessage EXCEPT !.to = <<>>,
                          !.toArray = ListOf(<<A_rcpt, A_cc>>)] }

Messages == GoodMessages \cup BadMessages \cup ListMessages

\* config.user: a mailbox, or empty (as for a server without authentication)
Users == {A_sender, <<>>}

Configs ==
    [secure : BOOLEAN, skipAuthentication : BOOLEAN,
     maxRetries : 0..MaxRetriesBound, user : Users, password : {S_pw}]

\* the message that exercises the session: from defaulted to config.user
PlainMessage == [BaseMessage EXCEPT !.from = <<>>]

\* the calls that are explored: the plain message under every configuration,
\* and every message under the configurations with the shortest handshake
\* (implicit TLS, no authentication)
Scenarios ==
    { s \in [config : Configs, options : Messages] :
        \/ s.options = PlainMessage
        \/ (s.config.secure /\ s.config.skipAuthentication) }

\* crypto.randomBytes(16).toString('hex')
RandomHex == {T_hexA, T_hexB}

\* what the server can answer to a command instead of the expected reply
FailureReplies == {<<R_421>>, <<R_452>>, <<R_550>>, <<R_550e>>}

\* what it can also answer to a step of the SASL exchange
AuthFailureReplies == {<<R_535>>, <<R_535af>>}

\* the responses to EHLO
EhloResponses ==
    { <<L_host, L_tlsCont, L_authEnd>>,     \* STARTTLS on a continuation line
      <<L_host, L_authCont, L_tlsEnd>>,     \* STARTTLS on the last line
      <<L_host, L_authCramEnd>> }           \* no STARTTLS

\* the greetings
Greetings == {G_220, G_421, G_554}

\* the messages of a socket 'error' event
SocketErrors == {E_refused, E_cert}

(***************************************************************************)
(* The state                                                               *)
(***************************************************************************)

VARIABLES
    config,             \* SMTPClient.config (fixed at construction)
    options,            \* the EmailOptions given to send
    socket,             \* SMTPClient.socket: an index of socks, 0 for null
    connected,          \* SMTPClient.connected
    lastCommand,        \* SMTPClient.lastCommand
    serverCapabilities, \* SMTPClient.serverCapabilities
    secureMode,         \* SMTPClient.secureMode
    retryCount,         \* SMTPClient.retryCount
    socks,              \* the sockets connect() created, in order, less
                        \* the earlier ones that have emitted 'close'
    pc,                 \* where send / sendEmail / close stands
    pending,            \* a command is written and its response awaited
    idx,                \* the position in the cc or bcc list
    connectionTimeout,  \* the timer of connect() is armed
    err,                \* the message of the error the catch block handles
    result,             \* the SendResult of sendEmail
    emailHeaders,       \* the header lines of the composed message
    wire,               \* the commands written in the current attempt:
                        \* the step, the text, whether the socket carried
                        \* TLS, what was logged, whether a reply came,
                        \* its code, and the lines of an accepted EHLO
                        \* response
    attempts,           \* how many times the try block was entered
    sleeps,             \* how many retry delays have elapsed
    connections,        \* how many sockets connect() has created
    obs                 \* what has been observed of the server: in the
                        \* current attempt (got5xx, authFailed, advertised)
                        \* and in the whole call (only4xx, closeCalled),
                        \* the lines of the last EHLO response (ehlo), and
                        \* how many times the server has accepted the
                        \* message body in this call (accepted)

\* a call of one of the pure functions of the source
VARIABLES
    input,              \* the string the function is called with
    output,             \* what it returned
    called,             \* the function called, "none" before the call
    smtpConfiguration,  \* the SMTPConfiguration given to new SMTPClient
    configurationOptions \* what new Configuration is given: the direct
                        \* configuration, the file at configFilePath and
                        \* the argument list

vars ==
    <<config, options, socket, connected, lastCommand, serverCapabilities,
      secureMode, retryCount, socks, pc, pending, idx, connectionTimeout,
      err, result, emailHeaders, wire, attempts, sleeps, connections, obs,
      input, output,
      called, smtpConfiguration, configurationOptions>>

\* what no step of the client changes
inputVars ==
    <<config, options, input, output, called, smtpConfiguration,
      configurationOptions>>

\* the arguments of the calls of the pure functions
argVars == <<input, smtpConfiguration, configurationOptions>>

\* the state of the client
clientVars ==
    <<config, options, socket, connected, lastCommand, serverCapabilities,
      secureMode, retryCount, socks, pc, pending, idx, connectionTimeout,
      err, result, emailHeaders, wire, attempts, sleeps, connections, obs>>

\* the fields of the client other than socket and connected
protocolVars == <<lastCommand, serverCapabilities, secureMode, retryCount>>

\* the counters of the run
countVars == <<attempts, sleeps, connections>>

\* no SendResult yet
NoResult ==
    [settled |-> FALSE, success |-> FALSE, messageId |-> <<>>,
     error |-> <<>>]

\* { success: false, error }
Failure(error) ==
    [settled |-> TRUE, success |-> FALSE, messageId |-> <<>>,
     error |-> error]

\* { success: true, messageId, message: 'Email sent successfully' }
Success(messageId) ==
    [settled |-> TRUE, success |-> TRUE, messageId |-> messageId,
     error |-> <<>>]

\* the state after new MikroMail({ config }): the constructor of SMTPClient,
\* for a configuration and a message of the set S
Constructed(S) ==
    /\ \E s \in S :
        /\ config = s.config
        /\ options = s.options
    /\ socket = 0
    /\ connected = FALSE
    /\ lastCommand = <<>>
    /\ serverCapabilities = <<>>
    /\ secureMode = config.secure
    /\ retryCount = 0
    /\ socks = <<>>
    /\ pc = "idle"
    /\ pending = FALSE
    /\ idx = 1
    /\ connectionTimeout = FALSE
    /\ err = <<>>
    /\ result = NoResult
    /\ emailHeaders = <<>>
    /\ wire = <<>>
    /\ attempts = 0
    /\ sleeps = 0
    /\ connections = 0
    /\ obs = [got5xx |-> FALSE, only4xx |-> TRUE, authFailed |-> FALSE,
              advertised |-> FALSE, closeCalled |-> FALSE, ehlo |-> <<>>,
              accepted |-> 0]

\* an optional property of a configuration object: undefined, or a value
NoNumber == [given |-> FALSE, value |-> 0]
NoFlag == [given |-> FALSE, value |-> FALSE]
Given(v) == [given |-> TRUE, value |-> v]

\* a ?? b
Nullish(a, b) == IF a.given THEN a.value ELSE b

\* the truthiness of an optional boolean: undefined is falsy
Truthy(a) == a.given /\ a.value

\* this.config = { ... } in the constructor of SMTPClient: the defaults
\* of the optional properties
EffectiveConfig(c) ==
    [port |-> Nullish(c.port, IF Truthy(c.secure) THEN 465 ELSE 587),
     secure |-> Nullish(c.secure, TRUE),
     debug |-> Nullish(c.debug, FALSE),
     timeout |-> Nullish(c.timeout, 10000),
     maxRetries |-> Nullish(c.maxRetries, 3),
     retryDelay |-> Nullish(c.retryDelay, 1000),
     skipAuthentication |-> Truthy(c.skipAuthentication)]

\* a configuration object that gives the connection properties of the
\* model's config and leaves the other optional properties out
GivenFor(c) ==
    [port |-> NoNumber, secure |-> Given(c.secure), debug |-> NoFlag,
     timeout |-> NoNumber, maxRetries |-> Given(c.maxRetries),
     retryDelay |-> NoNumber,
     skipAuthentication |-> Given(c.skipAuthentication)]

(***************************************************************************)
(* Configuration: the direct configuration, the configuration file and    *)
(* the command line merged into one SMTPConfiguration                      *)
(***************************************************************************)

\* a string property left out
NoString == [given |-> FALSE, value |-> <<>>]

\* the keys Configuration names
ConfigurationKeys ==
    {"host", "user", "password", "port", "secure", "debug", "maxRetries"}

\* {}: an object with none of the keys
EmptyObject ==
    [host |-> NoString, user |-> NoString, password |-> NoString,
     port |-> NoNumber, secure |-> NoFlag, debug |-> NoFlag,
     maxRetries |-> NoNumber]

\* { ...a, ...b }
Spread(a, b) ==
    [k \in ConfigurationKeys |-> IF b[k].given THEN b[k] ELSE a[k]]

\* the defaults of create
ConfigurationDefaults ==
    [host |-> Given(<<>>), user |-> Given(<<>>), password |-> Given(<<>>),
     port |-> Given(465), secure |-> Given(TRUE), debug |-> Given(FALSE),
     maxRetries |-> Given(2)]

\* "--host"
F_host == <<45, 45, 104, 111, 115, 116>>

\* "--user"
F_user == <<45, 45, 117, 115, 101, 114>>

\* "--password"
F_password == <<45, 45, 112, 97, 115, 115, 119, 111, 114, 100>>

\* "--port"
F_port == <<45, 45, 112, 111, 114, 116>>

\* "--secure"
F_secure == <<45, 45, 115, 101, 99, 117, 114, 101>>

\* "--debug"
F_debug == <<45, 45, 100, 101, 98, 117, 103>>

\* "--retries"
F_retries == <<45, 45, 114, 101, 116, 114, 105, 101, 115>>

\* the number a string of decimal digits writes
RECURSIVE DecimalValue(_)
DecimalValue(digits) ==
    IF digits = <<>> THEN 0
    ELSE 10 * DecimalValue(SubSeq(digits, 1, Len(digits) - 1))
         + (digits[Len(digits)] - 48)

\* Number.parseInt(s, 10): leading white space is skipped, a sign is read,
\* then the longest run of decimal digits; NaN when the run is empty
ParseInt(s) ==
    LET t == TrimStart(s)
        signed == t # <<>> /\ t[1] \in {43, 45}
        d == IF signed THEN Tail(t) ELSE t
        n == CHOOSE n \in 0..Len(d) :
                /\ \A i \in 1..n : d[i] \in Digits
                /\ n < Len(d) => d[n + 1] \notin Digits
        magnitude == DecimalValue(SubSeq(d, 1, n))
    IN  [nan |-> n = 0,
         value |-> IF n = 0 THEN 0
                   ELSE IF t[1] = 45 THEN 0 - magnitude ELSE magnitude]

\* the loop of parseCliArgs from position i (counted from 1) with the
\* cliConfig built so far
RECURSIVE ParseCliArgsFrom(_, _, _)
ParseCliArgsFrom(args, i, cliConfig) ==
    IF i > Len(args) THEN cliConfig
    ELSE
        LET arg == args[i]
            hasNext == i + 1 <= Len(args)
            value == ParseInt(args[i + 1])
        IN  IF arg = F_host THEN
                IF hasNext
                THEN ParseCliArgsFrom(args, i + 2,
                        [cliConfig EXCEPT !.host = Given(args[i + 1])])
                ELSE ParseCliArgsFrom(args, i + 1, cliConfig)
            ELSE IF arg = F_user THEN
                IF hasNext
                THEN ParseCliArgsFrom(args, i + 2,
                        [cliConfig EXCEPT !.user = Given(args[i + 1])])
                ELSE ParseCliArgsFrom(args, i + 1, cliConfig)
            ELSE IF arg = F_password THEN
                IF hasNext
                THEN ParseCliArgsFrom(args, i + 2,
                        [cliConfig EXCEPT !.password = Given(args[i + 1])])
                ELSE ParseCliArgsFrom(args, i + 1, cliConfig)
            ELSE IF arg = F_port THEN
                IF hasNext
                THEN ParseCliArgsFrom(args, i + 2,
                        IF value.nan THEN cliConfig
                        ELSE [cliConfig EXCEPT !.port = Given(value.value)])
                ELSE ParseCliArgsFrom(args, i + 1, cliConfig)
            ELSE IF arg = F_secure THEN
                ParseCliArgsFrom(args, i + 1,
                    [cliConfig EXCEPT !.secure = Given(TRUE)])
            ELSE IF arg = F_debug THEN
                ParseCliArgsFrom(args, i + 1,
                    [cliConfig EXCEPT !.debug = Given(TRUE)])
            ELSE IF arg = F_retries THEN
                IF hasNext
                THEN ParseCliArgsFrom(args, i + 2,
                        IF value.nan THEN cliConfig
                        ELSE [cliConfig EXCEPT
                                !.maxRetries = Given(value.value)])
                ELSE ParseCliArgsFrom(args, i + 1, cliConfig)
            ELSE ParseCliArgsFrom(args, i + 1, cliConfig)

\* parseCliArgs: the loop starts at the third element
parseCliArgs(args) == ParseCliArgsFrom(args, 3, EmptyObject)

\* the file is read only when it exists, and kept only when it parses
FileConfig(file) ==
    IF file.exists /\ file.parses THEN file.content ELSE EmptyObject

\* create: { ...defaults, ...configuration, ...fileConfig, ...cliConfig }
create(file, args, configuration) ==
    Spread(Spread(Spread(ConfigurationDefaults, configuration),
                  FileConfig(file)),
           parseCliArgs(args))

\* new Configuration(o).get(): validate throws when the host is falsy,
\* otherwise the merged configuration is returned
ConfigurationGet(o) ==
    LET merged == create(o.file, o.args, o.config) IN
    [threw |-> merged.host.value = <<>>,
     config |-> [k \in ConfigurationKeys |-> merged[k].value]]

\* new Configuration() with no options, no file and no arguments
NoOptions ==
    [config |-> EmptyObject,
     file |-> [exists |-> FALSE, parses |-> FALSE, content |-> EmptyObject],
     args |-> <<>>]

Init ==
    /\ Constructed(Scenarios)
    /\ input = <<>>
    /\ output = <<>>
    /\ called = "none"
    /\ smtpConfiguration = GivenFor(config)
    /\ configurationOptions = NoOptions

(***************************************************************************)
(* Commands                                                                *)
(***************************************************************************)

\* expectedCode.toString()
CodeText(n) ==
    <<48 + (n \div 100), 48 + ((n \div 10) % 10), 48 + (n % 10)>>

\* const from = options.from || this.config.user
EffectiveFrom == IF options.from # <<>> THEN options.from ELSE config.user

\* the steps of the SASL exchange
AuthSteps ==
    {"authPlain", "authLogin", "authLoginUser", "authLoginPass", "authCram",
     "authCramResp"}

\* the steps at which sendCommand is called
CommandSteps ==
    {"ehlo1", "starttls", "ehlo2", "mail", "rcptTo", "rcptCc", "rcptBcc",
     "data", "body", "rset", "quit"} \cup AuthSteps

\* the command sendCommand is called with at step p
CommandText(p) ==
    CASE p \in {"ehlo1", "ehlo2"} -> C_EHLO \o S_host
      [] p = "starttls" -> C_STARTTLS
      [] p = "authPlain" ->
            C_AUTHPLAIN
            \o Base64(<<0>> \o config.user \o <<0>> \o config.password)
      [] p = "authLogin" -> C_AUTHLOGIN
      [] p = "authLoginUser" -> Base64(config.user)
      [] p = "authLoginPass" -> Base64(config.password)
      [] p = "authCram" -> C_AUTHCRAM
      [] p = "authCramResp" -> Base64(config.user \o <<32>> \o T_digest)
      [] p = "mail" -> C_MAIL \o EffectiveFrom \o <<62>>
      [] p = "rcptTo" -> C_RCPT \o options.to \o <<62>>
      [] p = "rcptCc" -> C_RCPT \o options.cc.list[idx] \o <<62>>
      [] p = "rcptBcc" -> C_RCPT \o options.bcc.list[idx] \o <<62>>
      [] p = "data" -> C_DATA
      \* `${emailContent}\r\n.`: the header section, the body left out
      [] p = "body" -> Join(emailHeaders, CRLF) \o CRLF \o <<46>>
      [] p = "rset" -> C_RSET
      [] p = "quit" -> C_QUIT

\* ExpectedCode if DATA were called with 250
ExpectedCode_data250(p) ==
    CASE p = "starttls" -> 220
      [] p \in {"authLogin", "authLoginUser", "authCram"} -> 334
      [] p \in {"authPlain", "authLoginPass", "authCramResp"} -> 235
      [] p = "data" -> 250
      [] p = "quit" -> 221
      [] OTHER -> 250

\* the reply code sendCommand is called with at step p
ExpectedCode(p) ==
    CASE p = "starttls" -> 220
      [] p \in {"authLogin", "authLoginUser", "authCram"} -> 334
      [] p \in {"authPlain", "authLoginPass", "authCramResp"} -> 235
      [] p = "data" -> 354
      [] p = "quit" -> 221
      [] OTHER -> 250

\* the current socket carries TLS: it was made by tls.connect, or it is the
\* TLS socket that wraps the plain one after the upgrade
SocketIsTLS ==
    /\ socket # 0
    /\ (socks[socket].tls \/ socks[socket].upgraded)

\* where an error thrown at step p is caught: the try of sendEmail, the
\* inner try around RSET, or the try of close
ThrowTarget(p) ==
    IF p = "rset" THEN "endSocket"
    ELSE IF p = "quit" THEN "finally"
    ELSE "catch"

\* a socket that can still emit 'close'
IsLive(s) == s.st # "closed"

\* the sockets without the one at position i
RemoveAt(seq, i) == SubSeq(seq, 1, i - 1) \o SubSeq(seq, i + 1, Len(seq))

\* the client is at an await (or has finished): events are handled only
\* then, a client step runs to its next await without interruption
Blocked ==
    \/ pending
    \/ pc \in {"idle", "verifyMX", "connecting", "upgrading", "sleep", "done"}

(***************************************************************************)
(* MikroMail.send and the validation and retry loop of sendEmail           *)
(***************************************************************************)

\* MikroMail.send is called: it awaits verifyEmailDomain
Send ==
    /\ pc = "idle"
    /\ pc' = "verifyMX"
    /\ UNCHANGED <<inputVars, socket, connected, protocolVars, socks, pending,
                   idx, connectionTimeout, err, result, emailHeaders, wire,
                   countVars, obs>>

\* verifyEmailDomain resolves (a missing MX record is only logged) and
\* sendEmail is called
OnVerifyDone ==
    /\ pc = "verifyMX"
    /\ pc' = "validate"
    /\ UNCHANGED <<inputVars, socket, connected, protocolVars, socks, pending,
                   idx, connectionTimeout, err, result, emailHeaders, wire,
                   countVars, obs>>

\* !to: the empty string is falsy, an array (even an empty one) is not
ToMissing == ~options.toArray.given /\ options.to = <<>>

\* validateEmail(to): for an array email.split is not a function, the
\* TypeError is caught inside validateEmail, which returns false
validateEmailOfTo ==
    IF options.toArray.given THEN FALSE ELSE validateEmail(options.to)

\* MissingRequired if the subject were not required
MissingRequired_noSubject ==
    \/ EffectiveFrom = <<>>
    \/ ToMissing
    \/ (options.textLen = 0 /\ options.htmlLen = 0)

\* !from || !to || !subject || (!text && !html)
MissingRequired ==
    \/ EffectiveFrom = <<>>
    \/ ToMissing
    \/ options.subject = <<>>
    \/ (options.textLen = 0 /\ options.htmlLen = 0)

\* !validateEmail(from) || !validateEmail(to)
InvalidAddress ==
    \/ ~validateEmail(EffectiveFrom)
    \/ ~validateEmailOfTo

\* sendEmail, up to the retry loop: the two validations, then retryCount = 0
Validate ==
    /\ pc = "validate"
    /\ IF MissingRequired
       THEN /\ result' = Failure(S_Missing)
            /\ pc' = "returned"
            /\ UNCHANGED retryCount
       ELSE IF InvalidAddress
       THEN /\ result' = Failure(S_Invalid)
            /\ pc' = "returned"
            /\ UNCHANGED retryCount
       ELSE /\ retryCount' = 0
            /\ pc' = "loop"
            /\ UNCHANGED result
    /\ UNCHANGED <<inputVars, socket, connected, lastCommand,
                   serverCapabilities, secureMode, socks, pending, idx,
                   connectionTimeout, err, emailHeaders, wire, countVars,
                   obs>>

\* the loop condition holds at the head of the for loop
LoopContinues == retryCount <= config.maxRetries

\* the head of the for loop: the condition, then the start of the try block
LoopHead ==
    /\ pc = "loop"
    /\ IF LoopContinues
       THEN /\ attempts' = attempts + 1
            /\ wire' = <<>>
            /\ pc' = IF retryCount > 0 THEN "sleep" ELSE "try"
            /\ UNCHANGED result
       ELSE /\ result' = Failure(S_MaxRetry)
            /\ pc' = "returned"
            /\ UNCHANGED <<attempts, wire>>
    /\ UNCHANGED <<inputVars, socket, connected, protocolVars, socks, pending,
                   idx, connectionTimeout, err, emailHeaders, sleeps,
                   connections, obs>>

\* the timer of the retry delay fires
OnRetryDelay ==
    /\ pc = "sleep"
    /\ sleeps' = sleeps + 1
    /\ pc' = "try"
    /\ UNCHANGED <<inputVars, socket, connected, protocolVars, socks, pending,
                   idx, connectionTimeout, err, result, emailHeaders, wire,
                   attempts, connections, obs>>

(***************************************************************************)
(* connect and the socket event handlers                                   *)
(***************************************************************************)

\* if (!this.connected) await this.connect(): the timer is armed and the
\* socket created (tls.connect when secure, net.createConnection otherwise)
Connect ==
    /\ pc = "try"
    /\ IF ~connected
       THEN /\ socks' = Append(SelectSeq(socks, IsLive),
                               [tls |-> config.secure, st |-> "open",
                                upgraded |-> FALSE])
            /\ socket' = Len(SelectSeq(socks, IsLive)) + 1
            /\ connectionTimeout' = TRUE
            /\ connections' = connections + 1
            /\ pc' = "connecting"
       ELSE /\ pc' = "mail"
            /\ UNCHANGED <<socks, socket, connectionTimeout, connections>>
    /\ UNCHANGED <<inputVars, connected, protocolVars, pending, idx, err,
                   result, emailHeaders, wire, attempts, sleeps, obs>>

\* the connection timer fires: reject, then this.socket?.destroy()
OnConnectionTimeout ==
    /\ pc = "connecting"
    /\ connectionTimeout
    /\ connectionTimeout' = FALSE
    /\ err' = S_ConnTimeout
    /\ pc' = "catch"
    /\ socks' = [socks EXCEPT ![socket].st =
                    IF @ = "closed" THEN @ ELSE "destroyed"]
    /\ obs' = [obs EXCEPT !.only4xx = FALSE]
    /\ UNCHANGED <<inputVars, socket, connected, protocolVars, pending, idx,
                   result, emailHeaders, wire, countVars>>

\* the 'error' event of the socket being connected: clearTimeout and reject
OnSocketError(e) ==
    /\ pc = "connecting"
    /\ socks[socket].st = "open"
    /\ (e = E_cert => socks[socket].tls)
    /\ connectionTimeout' = FALSE
    /\ err' = S_ConnError \o e
    /\ pc' = "catch"
    /\ socks' = [socks EXCEPT ![socket].st = "destroyed"]
    /\ obs' = [obs EXCEPT !.only4xx = FALSE]
    /\ UNCHANGED <<inputVars, socket, connected, protocolVars, pending, idx,
                   result, emailHeaders, wire, countVars>>

\* the 'connect' event: clearTimeout, then wait for the greeting
OnConnect ==
    /\ pc = "connecting"
    /\ connectionTimeout
    /\ socks[socket].st = "open"
    /\ connectionTimeout' = FALSE
    /\ UNCHANGED <<inputVars, socket, connected, protocolVars, socks, pc,
                   pending, idx, err, result, emailHeaders, wire, countVars,
                   obs>>

\* OnGreeting if the greeting left secureMode as the last connection set it
OnGreeting_keepSecureMode(greeting) ==
    /\ pc = "connecting"
    /\ ~connectionTimeout
    /\ socks[socket].st = "open"
    /\ IF StartsWith(Trim(greeting), CodeText(220))
       THEN /\ connected' = TRUE
            /\ secureMode' = secureMode
            /\ pc' = "ehlo1"
            /\ UNCHANGED <<err, socks, obs>>
       ELSE /\ err' = S_BadGreeting \o Trim(greeting)
            /\ socks' = [socks EXCEPT ![socket].st = "destroyed"]
            /\ pc' = "catch"
            /\ obs' = [obs EXCEPT !.only4xx = FALSE]
            /\ UNCHANGED <<connected, secureMode>>
    /\ UNCHANGED <<inputVars, socket, lastCommand, serverCapabilities,
                   retryCount, pending, idx, connectionTimeout, result,
                   emailHeaders, wire, countVars>>

\* the first 'data' event after 'connect': the greeting
OnGreeting(greeting) ==
    /\ pc = "connecting"
    /\ ~connectionTimeout
    /\ socks[socket].st = "open"
    /\ IF StartsWith(Trim(greeting), CodeText(220))
       THEN /\ connected' = TRUE
            /\ secureMode' = config.secure
            /\ pc' = "ehlo1"
            /\ UNCHANGED <<err, socks, obs>>
       ELSE /\ err' = S_BadGreeting \o Trim(greeting)
            /\ socks' = [socks EXCEPT ![socket].st = "destroyed"]
            /\ pc' = "catch"
            /\ obs' = [obs EXCEPT !.only4xx = FALSE]
            /\ UNCHANGED <<connected, secureMode>>
    /\ UNCHANGED <<inputVars, socket, lastCommand, serverCapabilities,
                   retryCount, pending, idx, connectionTimeout, result,
                   emailHeaders, wire, countVars>>

\* the 'close' event of socket i (of this connection or of an earlier one):
\* if not connected, clearTimeout and reject the connect() the handler
\* belongs to; then connected = false
OnClose(i) ==
    /\ Blocked
    /\ socks[i].st # "closed"
    /\ IF i = socket
       THEN /\ socks' = [socks EXCEPT ![i].st = "closed"]
            /\ UNCHANGED socket
       ELSE /\ socks' = RemoveAt(socks, i)
            /\ socket' = IF socket > i THEN socket - 1 ELSE socket
    /\ connected' = FALSE
    /\ IF ~connected /\ pc = "connecting" /\ i = socket
       THEN /\ connectionTimeout' = FALSE
            /\ err' = S_ClosedEarly
            /\ pc' = "catch"
            /\ obs' = [obs EXCEPT !.only4xx = FALSE]
       ELSE UNCHANGED <<connectionTimeout, err, pc, obs>>
    /\ UNCHANGED <<inputVars, protocolVars, pending, idx, result,
                   emailHeaders, wire, countVars>>

(***************************************************************************)
(* sendCommand                                                             *)
(***************************************************************************)

\* sendCommand is called at a command step: it throws when not connected,
\* otherwise it arms the command timer, sets lastCommand and writes the
\* command
\* the line sendCommand logs for the command (when debug is on)
LoggedCommand(command) ==
    IF \/ StartsWith(command, T_AUTHsp \o T_PLAIN)
       \/ StartsWith(command, C_AUTHLOGIN)
       \/ (lastCommand = C_AUTHLOGIN /\ ~StartsWith(command, T_AUTH))
    THEN S_LogCommand \o S_Hidden
    ELSE S_LogCommand \o command

SendCommand ==
    /\ pc \in CommandSteps
    /\ ~pending
    /\ IF socket = 0 \/ ~connected
       THEN /\ pc' = ThrowTarget(pc)
            /\ err' = IF pc \in {"rset", "quit"} THEN err ELSE S_NotConnected
            /\ obs' = IF pc \in {"rset", "quit"} THEN obs
                      ELSE [obs EXCEPT !.only4xx = FALSE]
            /\ UNCHANGED <<pending, lastCommand, wire>>
       ELSE /\ pending' = TRUE
            /\ lastCommand' = CommandText(pc)
            /\ wire' = Append(wire, [step |-> pc, text |-> CommandText(pc),
                                     tls |-> SocketIsTLS,
                                     log |-> LoggedCommand(CommandText(pc)),
                                     answered |-> FALSE,
                                     code |-> <<>>,
                                     capabilities |-> <<>>])
            /\ UNCHANGED <<pc, err, obs>>
    /\ UNCHANGED <<inputVars, socket, connected, serverCapabilities,
                   secureMode, retryCount, socks, idx, connectionTimeout,
                   result, emailHeaders, countVars>>

\* the responses the server can give at step p
RepliesFor(p) ==
    (IF p \in {"ehlo1", "ehlo2"} THEN EhloResponses
     ELSE {<<CodeText(ExpectedCode(p)) \o <<32, 111, 107>>>>})
    \cup FailureReplies
    \cup (IF p \in AuthSteps THEN AuthFailureReplies ELSE {})

\* some line of an EHLO response names the STARTTLS extension
AdvertisesSTARTTLS(lines) ==
    \E i \in 2..Len(lines) :
        /\ Len(lines[i]) >= 4
        /\ ToUpperCase(SubSeq(lines[i], 5, Len(lines[i]))) = C_STARTTLS

\* StepAfter if a plain session always asked for STARTTLS
StepAfter_alwaysStarttls(p, caps) ==
    CASE p = "ehlo1" ->
            IF ~secureMode THEN "starttls"
            ELSE "auth"
      [] p = "starttls" -> "upgrade"
      [] p = "ehlo2" -> "auth"
      [] p \in {"authPlain", "authLoginPass", "authCramResp"} -> "mail"
      [] p = "authLogin" -> "authLoginUser"
      [] p = "authLoginUser" -> "authLoginPass"
      [] p = "authCram" -> "authCramResp"
      [] p = "mail" -> "rcptTo"
      [] p \in {"rcptTo", "rcptCc"} -> "ccLoop"
      [] p = "rcptBcc" -> "bccLoop"
      [] p = "data" -> "compose"
      [] p = "body" -> "returned"
      [] p = "rset" -> "endSocket"
      [] p = "quit" -> "finally"

\* the step that follows step p when its command got the expected reply
StepAfter(p, caps) ==
    CASE p = "ehlo1" ->
            IF ~secureMode /\ IncludesSTARTTLS(caps) THEN "starttls"
            ELSE "auth"
      [] p = "starttls" -> "upgrade"
      [] p = "ehlo2" -> "auth"
      [] p \in {"authPlain", "authLoginPass", "authCramResp"} -> "mail"
      [] p = "authLogin" -> "authLoginUser"
      [] p = "authLoginUser" -> "authLoginPass"
      [] p = "authCram" -> "authCramResp"
      [] p = "mail" -> "rcptTo"
      [] p \in {"rcptTo", "rcptCc"} -> "ccLoop"
      [] p = "rcptBcc" -> "bccLoop"
      [] p = "data" -> "compose"
      [] p = "body" -> "returned"
      [] p = "rset" -> "endSocket"
      [] p = "quit" -> "finally"

\* /Message-ID: (.*)/i.exec(emailContent)[1].trim(): the rest of the first
\* header line that holds 'Message-ID: ', from its first occurrence there
ExtractMessageId(lines) ==
    LET i == CHOOSE k \in 1..Len(lines) :
                /\ Includes(ToLowerCase(lines[k]), ToLowerCase(T_MsgId))
                /\ \A j \in 1..(k - 1) :
                    ~Includes(ToLowerCase(lines[j]), ToLowerCase(T_MsgId))
        line == lines[i]
        at == CHOOSE k \in 1..Len(line) :
                /\ ToLowerCase(SubSeq(line, k, k + Len(T_MsgId) - 1))
                    = ToLowerCase(T_MsgId)
                /\ \A j \in 1..(k - 1) :
                    ToLowerCase(SubSeq(line, j, j + Len(T_MsgId) - 1))
                        # ToLowerCase(T_MsgId)
    IN  Trim(SubSeq(line, at + Len(T_MsgId), Len(line)))

\* OnData if an EHLO response were added to the capabilities already held
OnData_merged(response) ==
    /\ pending
    /\ socks[socket].st = "open"
    /\ response \in RepliesFor(pc)
    /\ IsCompleteResponse(response)
    /\ pending' = FALSE
    /\ wire' = [wire EXCEPT
                ![Len(wire)].answered = TRUE,
                ![Len(wire)].code = ResponseCode(response),
                ![Len(wire)].capabilities =
                    IF pc \in {"ehlo1", "ehlo2"}
                       /\ ResponseCode(response) = CodeText(ExpectedCode(pc))
                    THEN response ELSE <<>>]
    /\ IF ResponseCode(response) = CodeText(ExpectedCode(pc))
       THEN /\ serverCapabilities' =
                    IF pc \in {"ehlo1", "ehlo2"}
                    THEN serverCapabilities \o parseCapabilities(response)
                    ELSE serverCapabilities
            /\ pc' = StepAfter(pc, serverCapabilities')
            /\ idx' = IF pc = "rcptTo" THEN 1
                      ELSE IF pc \in {"rcptCc", "rcptBcc"} THEN idx + 1
                      ELSE idx
            /\ result' = IF pc = "body"
                         THEN Success(ExtractMessageId(emailHeaders))
                         ELSE result
            /\ obs' = [obs EXCEPT
                        !.advertised =
                            IF pc = "ehlo1" THEN AdvertisesSTARTTLS(response)
                            ELSE @,
                        !.ehlo = IF pc \in {"ehlo1", "ehlo2"} THEN response
                                 ELSE @,
                        !.only4xx = IF pc = "body" THEN FALSE ELSE @,
                        !.accepted = IF pc = "body" THEN @ + 1 ELSE @]
            /\ UNCHANGED err
       ELSE /\ pc' = ThrowTarget(pc)
            /\ err' = IF pc \in {"rset", "quit"} THEN err
                      ELSE S_SmtpError \o ResponseText(response)
            /\ obs' = IF pc \in {"rset", "quit"} THEN obs
                      ELSE [obs EXCEPT
                        !.got5xx = @ \/ ResponseCode(response)[1] = 53,
                        !.only4xx = @ /\ ResponseCode(response)[1] = 52,
                        !.authFailed = @ \/ pc \in AuthSteps]
            /\ UNCHANGED <<serverCapabilities, idx, result>>
    /\ UNCHANGED <<inputVars, socket, connected, lastCommand, secureMode,
                   retryCount, socks, connectionTimeout, emailHeaders,
                   countVars>>

\* the 'data' handler of sendCommand gets a complete response: the command
\* resolves when the code is the expected one and rejects otherwise
OnData(response) ==
    /\ pending
    /\ socks[socket].st = "open"
    /\ response \in RepliesFor(pc)
    /\ IsCompleteResponse(response)
    /\ pending' = FALSE
    /\ wire' = [wire EXCEPT
                ![Len(wire)].answered = TRUE,
                ![Len(wire)].code = ResponseCode(response),
                ![Len(wire)].capabilities =
                    IF pc \in {"ehlo1", "ehlo2"}
                       /\ ResponseCode(response) = CodeText(ExpectedCode(pc))
                    THEN response ELSE <<>>]
    /\ IF ResponseCode(response) = CodeText(ExpectedCode(pc))
       THEN /\ serverCapabilities' =
                    IF pc \in {"ehlo1", "ehlo2"}
                    THEN parseCapabilities(response)
                    ELSE serverCapabilities
            /\ pc' = StepAfter(pc, serverCapabilities')
            /\ idx' = IF pc = "rcptTo" THEN 1
                      ELSE IF pc \in {"rcptCc", "rcptBcc"} THEN idx + 1
                      ELSE idx
            /\ result' = IF pc = "body"
                         THEN Success(ExtractMessageId(emailHeaders))
                         ELSE result
            /\ obs' = [obs EXCEPT
                        !.advertised =
                            IF pc = "ehlo1" THEN AdvertisesSTARTTLS(response)
                            ELSE @,
                        !.ehlo = IF pc \in {"ehlo1", "ehlo2"} THEN response
                                 ELSE @,
                        !.only4xx = IF pc = "body" THEN FALSE ELSE @,
                        !.accepted = IF pc = "body" THEN @ + 1 ELSE @]
            /\ UNCHANGED err
       ELSE /\ pc' = ThrowTarget(pc)
            /\ err' = IF pc \in {"rset", "quit"} THEN err
                      ELSE S_SmtpError \o ResponseText(response)
            /\ obs' = IF pc \in {"rset", "quit"} THEN obs
                      ELSE [obs EXCEPT
                        !.got5xx = @ \/ ResponseCode(response)[1] = 53,
                        !.only4xx = @ /\ ResponseCode(response)[1] = 52,
                        !.authFailed = @ \/ pc \in AuthSteps]
            /\ UNCHANGED <<serverCapabilities, idx, result>>
    /\ UNCHANGED <<inputVars, socket, connected, lastCommand, secureMode,
                   retryCount, socks, connectionTimeout, emailHeaders,
                   countVars>>

\* the command timer fires: the listener is removed and the command rejects.
\* When the command is the message body, the server has either not received
\* it, or it has accepted the message and its 250 is lost or late
OnCommandTimeout ==
    /\ pending
    /\ pending' = FALSE
    /\ pc' = ThrowTarget(pc)
    /\ err' = IF pc \in {"rset", "quit"} THEN err
              ELSE S_CmdTimeout \o CommandText(pc)
    /\ \E lost250 \in (IF pc = "body" THEN BOOLEAN ELSE {FALSE}) :
        obs' = IF pc \in {"rset", "quit"} THEN obs
               ELSE [obs EXCEPT !.only4xx = FALSE,
                                !.accepted = IF lost250 THEN @ + 1 ELSE @]
    /\ UNCHANGED <<inputVars, socket, connected, protocolVars, socks, idx,
                   connectionTimeout, result, emailHeaders, wire, countVars>>

(***************************************************************************)
(* smtpHandshake: the upgrade and the authentication                       *)
(***************************************************************************)

\* upgradeToTLS is called after STARTTLS was answered 220
UpgradeToTLS ==
    /\ pc = "upgrade"
    /\ pc' = IF socket = 0 \/ secureMode THEN "ehlo2" ELSE "upgrading"
    /\ UNCHANGED <<inputVars, socket, connected, protocolVars, socks, pending,
                   idx, connectionTimeout, err, result, emailHeaders, wire,
                   countVars, obs>>

\* 'secureConnect' of the TLS socket that wraps the plain one
OnSecureConnect(authorized) ==
    /\ pc = "upgrading"
    /\ socks[socket].st = "open"
    /\ IF authorized
       THEN /\ socks' = [socks EXCEPT ![socket].upgraded = TRUE]
            /\ secureMode' = TRUE
            /\ pc' = "ehlo2"
            /\ UNCHANGED <<err, obs>>
       ELSE /\ err' = S_CertFailed \o E_selfsigned
            /\ pc' = "catch"
            /\ obs' = [obs EXCEPT !.only4xx = FALSE]
            /\ UNCHANGED <<socks, secureMode>>
    /\ UNCHANGED <<inputVars, socket, connected, lastCommand,
                   serverCapabilities, retryCount, pending, idx,
                   connectionTimeout, result, emailHeaders, wire, countVars>>

\* 'error' of the TLS socket that wraps the plain one
OnTlsError(e) ==
    /\ pc = "upgrading"
    /\ err' = S_StartTlsError \o e
    /\ pc' = "catch"
    /\ obs' = [obs EXCEPT !.only4xx = FALSE]
    /\ UNCHANGED <<inputVars, socket, connected, protocolVars, socks, pending,
                   idx, connectionTimeout, result, emailHeaders, wire,
                   countVars>>

\* Authenticate if skipAuthentication were not read
Authenticate_always ==
    /\ pc = "auth"
    /\ pc' = IF FALSE THEN "mail"
             ELSE CASE getBestAuthMethod(serverCapabilities) = "CRAM-MD5"
                         -> "authCram"
                    [] getBestAuthMethod(serverCapabilities) = "LOGIN"
                         -> "authLogin"
                    [] OTHER -> "authPlain"
    /\ UNCHANGED <<inputVars, socket, connected, protocolVars, socks, pending,
                   idx, connectionTimeout, err, result, emailHeaders, wire,
                   countVars, obs>>

\* the end of smtpHandshake: authenticate unless skipAuthentication
Authenticate ==
    /\ pc = "auth"
    /\ pc' = IF config.skipAuthentication THEN "mail"
             ELSE CASE getBestAuthMethod(serverCapabilities) = "CRAM-MD5"
                         -> "authCram"
                    [] getBestAuthMethod(serverCapabilities) = "LOGIN"
                         -> "authLogin"
                    [] OTHER -> "authPlain"
    /\ UNCHANGED <<inputVars, socket, connected, protocolVars, socks, pending,
                   idx, connectionTimeout, err, result, emailHeaders, wire,
                   countVars, obs>>

(***************************************************************************)
(* The envelope, the message and the outcome of an attempt                 *)
(***************************************************************************)

\* CcLoop if every cc entry were sent, valid or not
CcLoop_noValidation ==
    /\ pc = "ccLoop"
    /\ IF ~options.cc.given \/ idx > Len(options.cc.list)
       THEN /\ pc' = "bccLoop"
            /\ idx' = 1
       ELSE IF TRUE
       THEN /\ pc' = "rcptCc"
            /\ UNCHANGED idx
       ELSE /\ idx' = idx + 1
            /\ UNCHANGED pc
    /\ UNCHANGED <<inputVars, socket, connected, protocolVars, socks, pending,
                   connectionTimeout, err, result, emailHeaders, wire,
                   countVars, obs>>

\* the loop over ccList: an entry that fails validateEmail is skipped
CcLoop ==
    /\ pc = "ccLoop"
    /\ IF ~options.cc.given \/ idx > Len(options.cc.list)
       THEN /\ pc' = "bccLoop"
            /\ idx' = 1
       ELSE IF validateEmail(options.cc.list[idx])
       THEN /\ pc' = "rcptCc"
            /\ UNCHANGED idx
       ELSE /\ idx' = idx + 1
            /\ UNCHANGED pc
    /\ UNCHANGED <<inputVars, socket, connected, protocolVars, socks, pending,
                   connectionTimeout, err, result, emailHeaders, wire,
                   countVars, obs>>

\* the loop over bccList: an entry that fails validateEmail is skipped
BccLoop ==
    /\ pc = "bccLoop"
    /\ IF ~options.bcc.given \/ idx > Len(options.bcc.list)
       THEN /\ pc' = "data"
            /\ idx' = 1
       ELSE IF validateEmail(options.bcc.list[idx])
       THEN /\ pc' = "rcptBcc"
            /\ UNCHANGED idx
       ELSE /\ idx' = idx + 1
            /\ UNCHANGED pc
    /\ UNCHANGED <<inputVars, socket, connected, protocolVars, socks, pending,
                   connectionTimeout, err, result, emailHeaders, wire,
                   countVars, obs>>

\* emailContent.length > this.maxEmailSize
ExceedsMaxSize(length) == length > maxEmailSize

\* after DATA was answered 354: createMultipartEmail, then the size check
Compose ==
    /\ pc = "compose"
    /\ \E random \in RandomHex :
        /\ emailHeaders' = MessageHeaders(options, config.user, random)
        /\ IF ExceedsMaxSize(EmailContentLength(options, config.user, random))
           THEN /\ result' = Failure(S_TooBig)
                /\ pc' = "returned"
                /\ obs' = [obs EXCEPT !.only4xx = FALSE]
           ELSE /\ pc' = "body"
                /\ UNCHANGED <<result, obs>>
    /\ UNCHANGED <<inputVars, socket, connected, protocolVars, socks, pending,
                   idx, connectionTimeout, err, wire, countVars>>

\* errorMessage.includes('5.') || errorMessage.includes('Authentication
\* failed') || errorMessage.includes('certificate')
isPermanentError(errorMessage) ==
    \/ Includes(errorMessage, S_5dot)
    \/ Includes(errorMessage, S_AuthFailed)
    \/ Includes(errorMessage, S_certificate)

\* the catch block if it retried after the last attempt as well
Catch_retriesPastLast ==
    /\ pc = "catch"
    /\ IF isPermanentError(err) \/ retryCount > config.maxRetries
       THEN /\ result' = Failure(err)
            /\ pc' = "returned"
       ELSE /\ pc' = IF connected THEN "rset" ELSE "endSocket"
            /\ UNCHANGED result
    /\ UNCHANGED <<inputVars, socket, connected, protocolVars, socks, pending,
                   idx, connectionTimeout, err, emailHeaders, wire, countVars,
                   obs>>

\* the catch block: return on a permanent error or on the last attempt,
\* otherwise RSET if still connected
Catch ==
    /\ pc = "catch"
    /\ IF isPermanentError(err) \/ retryCount >= config.maxRetries
       THEN /\ result' = Failure(err)
            /\ pc' = "returned"
       ELSE /\ pc' = IF connected THEN "rset" ELSE "endSocket"
            /\ UNCHANGED result
    /\ UNCHANGED <<inputVars, socket, connected, protocolVars, socks, pending,
                   idx, connectionTimeout, err, emailHeaders, wire, countVars,
                   obs>>

\* the end of the catch block and the loop increment: this.socket?.end(),
\* connected = false, retryCount++
EndSocket ==
    /\ pc = "endSocket"
    /\ socks' = IF socket # 0 /\ socks[socket].st = "open"
                THEN [socks EXCEPT ![socket].st = "ended"]
                ELSE socks
    /\ connected' = FALSE
    /\ retryCount' = retryCount + 1
    /\ pc' = "loop"
    \* the locals of the try and catch blocks go out of scope
    /\ err' = <<>>
    /\ idx' = 1
    /\ emailHeaders' = <<>>
    /\ obs' = [obs EXCEPT !.got5xx = FALSE, !.authFailed = FALSE,
                           !.advertised = FALSE]
    /\ UNCHANGED <<inputVars, socket, lastCommand, serverCapabilities,
                   secureMode, pending, connectionTimeout, result, wire,
                   countVars>>

(***************************************************************************)
(* close                                                                   *)
(***************************************************************************)

\* sendEmail has returned: MikroMail.send logs the result and calls close,
\* which sends QUIT if connected
Close ==
    /\ pc = "returned"
    /\ pc' = IF connected THEN "quit" ELSE "finally"
    /\ obs' = [obs EXCEPT !.closeCalled = TRUE]
    /\ UNCHANGED <<inputVars, socket, connected, protocolVars, socks, pending,
                   idx, connectionTimeout, err, result, emailHeaders, wire,
                   countVars>>

\* the finally block of close if it dropped the socket without destroying
\* it
Finally_noDestroy ==
    /\ pc = "finally"
    /\ IF socket # 0
       THEN /\ socks' = SelectSeq(socks, IsLive)
            /\ socket' = 0
            /\ connected' = FALSE
       ELSE UNCHANGED <<socks, socket, connected>>
    /\ pc' = "done"
    /\ UNCHANGED <<inputVars, protocolVars, pending, idx, connectionTimeout,
                   err, result, emailHeaders, wire, countVars, obs>>

\* the finally block of close: destroy the socket, socket = null,
\* connected = false
Finally ==
    /\ pc = "finally"
    /\ IF socket # 0
       THEN /\ socks' = SelectSeq([socks EXCEPT ![socket].st =
                                IF @ = "closed" THEN @ ELSE "destroyed"],
                                IsLive)
            /\ socket' = 0
            /\ connected' = FALSE
       ELSE UNCHANGED <<socks, socket, connected>>
    /\ pc' = "done"
    /\ UNCHANGED <<inputVars, protocolVars, pending, idx, connectionTimeout,
                   err, result, emailHeaders, wire, countVars, obs>>

(***************************************************************************)
(* The specifications                                                      *)
(***************************************************************************)

\* what the client does by itself, between two awaits
ClientStep ==
    \/ Send
    \/ Validate
    \/ LoopHead
    \/ Connect
    \/ SendCommand
    \/ UpgradeToTLS
    \/ Authenticate
    \/ CcLoop
    \/ BccLoop
    \/ Compose
    \/ Catch
    \/ EndSocket
    \/ Close
    \/ Finally

\* the timers of the client
TimerStep ==
    \/ OnConnectionTimeout
    \/ OnCommandTimeout
    \/ OnRetryDelay

\* what the server, the resolver and the network do
ServerStep ==
    \/ OnVerifyDone
    \/ OnConnect
    \/ \E e \in SocketErrors : OnSocketError(e)
    \/ \E g \in Greetings : OnGreeting(g)
    \/ \E i \in 1..Len(socks) : OnClose(i)
    \/ \E r \in EhloResponses \cup FailureReplies \cup AuthFailureReplies
                \cup {<<CodeText(c) \o <<32, 111, 107>>>> :
                        c \in {220, 221, 235, 250, 334, 354}} : OnData(r)
    \/ \E a \in BOOLEAN : OnSecureConnect(a)
    \/ \E e \in {E_cert, E_proto} : OnTlsError(e)

Next == ClientStep \/ TimerStep \/ ServerStep

Spec == Init /\ [][Next]_vars

\* the calls explored for the progress of the client: the plain message,
\* once through STARTTLS and authentication without a retry, once over
\* implicit TLS with retries
LiveScenarios ==
    { s \in Scenarios :
        /\ s.options = PlainMessage
        /\ s.config.user = A_sender
        /\ \/ (~s.config.secure /\ ~s.config.skipAuthentication
                /\ s.config.maxRetries = 0)
           \/ (s.config.secure /\ s.config.skipAuthentication
                /\ s.config.maxRetries = MaxRetriesBound) }

LiveInit ==
    /\ Init
    /\ [config |-> config, options |-> options] \in LiveScenarios

\* the client runs whenever it can and its timers fire; the resolver
\* answers; nothing is assumed of the server or of the network
FairSpec ==
    /\ LiveInit
    /\ [][Next]_vars
    /\ WF_vars(ClientStep)
    /\ WF_vars(TimerStep)
    /\ WF_vars(OnVerifyDone)

(***************************************************************************)
(* The pure functions (sanitizeHeader, createEmailHeaders,                 *)
(* encodeHeaderValue, encodeQuotedPrintable, validateEmail) and the        *)
(* constructors (SMTPClient, Configuration), each called on one input      *)
(***************************************************************************)

\* the longest string made of every combination of the alphabet
MaxLen == 3

\* the longest run of one letter at the head of a long string
MaxRun == 160

\* a, space, '=', CR, LF, TAB, e with acute accent
Alphabet == {97, 32, 61, 13, 10, 9, 233}

\* every string over the alphabet, up to MaxLen characters
ShortTexts == UNION {[1..n -> Alphabet] : n \in 0..MaxLen}

\* what follows the run in a long string: nothing; a bare CR and 'b';
\* CR LF and 'b'; '=' and 'b'; e with acute accent; a space; the CJK
\* character U+4E2D
Tails ==
    {<<>>, <<13, 98>>, <<13, 10, 98>>, <<61, 98>>, <<233>>, <<32>>,
     <<20013>>}

\* a run of the letter 'a', up to MaxRun long, and a tail
LongTexts == {[i \in 1..n |-> 97] \o t : n \in 1..MaxRun, t \in Tails}

\* the longest string made of every combination of 'a', '@' and '.'
EmailLen == 7

\* every string of 'a', '@' and '.', up to EmailLen characters
EmailTexts == UNION {[1..n -> {97, 64, 46}] : n \in 0..EmailLen}

\* "a@aa.aa@" CR LF "DATA": text after a second '@'
A_twoAt ==
    <<97, 64, 97, 97, 46, 97, 97, 64, 13, 10, 68, 65, 84, 65>>

\* "a@[IPv6:>" CR LF "RSET]": a bracketed domain literal
A_literal ==
    <<97, 64, 91, 73, 80, 118, 54, 58, 62, 13, 10, 82, 83, 69, 84, 93>>

\* addresses that carry a line break
BrokenAddresses == {A_twoAt, A_literal}

Texts == ShortTexts \cup LongTexts \cup EmailTexts \cup BrokenAddresses

\* a message whose from, to, subject, cc, reply-to and custom header value
\* are all the given string
MessageOf(value) ==
    [BaseMessage EXCEPT !.from = value, !.to = value, !.subject = value,
                        !.cc = ListOf(<<value, value>>),
                        !.replyTo = value,
                        !.headers = <<[name |-> H_XNote, value |-> value]>>]

\* the configuration objects: port, secure, maxRetries and
\* skipAuthentication given or left out, the other optional properties left
\* out
SMTPConfigurations ==
    [port : {NoNumber, Given(25), Given(465), Given(587)},
     secure : {NoFlag, Given(TRUE), Given(FALSE)},
     debug : {NoFlag},
     timeout : {NoNumber},
     maxRetries : {NoNumber, Given(0)},
     retryDelay : {NoNumber},
     skipAuthentication : {NoFlag, Given(TRUE), Given(FALSE)}]

\* "node"
A_node == <<110, 111, 100, 101>>

\* "cli.js"
A_script == <<99, 108, 105, 46, 106, 115>>

\* "25"
A_25 == <<50, 53>>

\* "8x"
A_8x == <<56, 120>>

\* the tokens of the argument lists: four flags, a number, and a digit
\* followed by a letter
Tokens == {F_host, F_port, F_secure, F_debug, A_25, A_8x}

\* the most tokens after the first two elements of an argument list
MaxArgs == 3

\* the argument lists: process.argv (the executable, the script, then the
\* tokens), or the tokens alone
ArgLists ==
    {lead \o rest : lead \in {<<>>, <<A_node, A_script>>},
                    rest \in UNION {[1..n -> Tokens] : n \in 0..MaxArgs}}

\* "d"
A_d == <<100>>

\* "f"
A_f == <<102>>

\* the direct configurations: none, a host alone, or host, port, secure,
\* debug and maxRetries
DirectConfigs ==
    {EmptyObject,
     [EmptyObject EXCEPT !.host = Given(A_d)],
     [EmptyObject EXCEPT !.host = Given(A_d), !.port = Given(1),
                         !.secure = Given(FALSE), !.debug = Given(FALSE),
                         !.maxRetries = Given(5)]}

\* the configuration files: none, one that is not JSON, one with host and
\* port, one with debug and maxRetries
Files ==
    {[exists |-> FALSE, parses |-> FALSE, content |-> EmptyObject],
     [exists |-> TRUE, parses |-> FALSE, content |-> EmptyObject],
     [exists |-> TRUE, parses |-> TRUE,
      content |-> [EmptyObject EXCEPT !.host = Given(A_f),
                                      !.port = Given(2)]],
     [exists |-> TRUE, parses |-> TRUE,
      content |-> [EmptyObject EXCEPT !.debug = Given(FALSE),
                                      !.maxRetries = Given(7)]]}

\* what new Configuration can be given
ConfigurationOptions == [config : DirectConfigs, file : Files, args : ArgLists]

\* one argument is drawn: a string, a configuration object, or the options
\* of new Configuration
PureInit ==
    /\ Constructed({[config |-> [secure |-> TRUE, skipAuthentication |-> TRUE,
                                  maxRetries |-> 0, user |-> A_sender,
                                  password |-> S_pw],
                      options |-> PlainMessage]})
    /\ \/ /\ input \in Texts
          /\ smtpConfiguration = GivenFor(config)
          /\ configurationOptions = NoOptions
       \/ /\ input = <<>>
          /\ smtpConfiguration \in SMTPConfigurations
          /\ configurationOptions = NoOptions
       \/ /\ input = <<>>
          /\ smtpConfiguration = GivenFor(config)
          /\ configurationOptions \in ConfigurationOptions
    /\ output = <<>>
    /\ called = "none"

\* this.sanitizeHeader(input)
CallSanitizeHeader ==
    /\ called = "none"
    /\ called' = "sanitizeHeader"
    /\ output' = sanitizeHeader(input)
    /\ UNCHANGED <<argVars, clientVars>>

\* this.createEmailHeaders(options) for the message made of input
CallCreateEmailHeaders ==
    /\ called = "none"
    /\ called' = "createEmailHeaders"
    /\ \E random \in RandomHex :
            output' = createEmailHeaders(MessageOf(input), config.user, random)
    /\ UNCHANGED <<argVars, clientVars>>

\* encodeQuotedPrintable(input)
CallEncodeQuotedPrintable ==
    /\ called = "none"
    /\ called' = "encodeQuotedPrintable"
    /\ output' = encodeQuotedPrintable(input)
    /\ UNCHANGED <<argVars, clientVars>>

\* this.encodeHeaderValue(input)
CallEncodeHeaderValue ==
    /\ called = "none"
    /\ called' = "encodeHeaderValue"
    /\ output' = encodeHeaderValue(input)
    /\ UNCHANGED <<argVars, clientVars>>

\* validateEmail(input)
CallValidateEmail ==
    /\ called = "none"
    /\ called' = "validateEmail"
    /\ output' = validateEmail(input)
    /\ UNCHANGED <<argVars, clientVars>>

\* new SMTPClient(smtpConfiguration): the config the constructor keeps
CallConstructor ==
    /\ called = "none"
    /\ called' = "constructor"
    /\ output' = EffectiveConfig(smtpConfiguration)
    /\ UNCHANGED <<argVars, clientVars>>

\* new Configuration(configurationOptions).get()
CallConfigurationGet ==
    /\ called = "none"
    /\ called' = "Configuration.get"
    /\ output' = ConfigurationGet(configurationOptions)
    /\ UNCHANGED <<argVars, clientVars>>

PureNext ==
    \/ CallConfigurationGet
    \/ CallConstructor
    \/ CallValidateEmail
    \/ CallSanitizeHeader
    \/ CallEncodeHeaderValue
    \/ CallCreateEmailHeaders
    \/ CallEncodeQuotedPrintable

PureSpec == PureInit /\ [][PureNext]_vars

(***************************************************************************)
(* The properties                                                          *)
(***************************************************************************)

\* the attempt has reached the body: the message is written and its reply
\* is awaited
BodyWritten == pc = "body" /\ pending

\* the entries of a cc or bcc list that pass validateEmail, in order
ValidEntries(l) == SelectSeq(l.list, validateEmail)

\* how many RCPT TO commands of the current attempt name the address
RcptCount(address) ==
    Cardinality({i \in DOMAIN wire :
                    wire[i].text = C_RCPT \o address \o <<62>>})

\* the commands of the current attempt written at step p, in order
WrittenAt(p) == SelectSeq(wire, LAMBDA w : w.step = p)

\* no line of the header section is a Bcc header
NoBccHeader ==
    \A k \in DOMAIN emailHeaders :
        ~StartsWith(ToLowerCase(emailHeaders[k]), T_bccColon)

\* C1 as stated: in an attempt that reaches the body of a message with
\* bcc addresses, the header section has no 'Bcc:' header and contains none
\* of the bcc addresses, and every bcc address that passes validateEmail
\* was sent in exactly one RCPT TO command of the attempt
C1_AsStated ==
    (BodyWritten /\ options.bcc.given) =>
        /\ NoBccHeader
        /\ \A i \in DOMAIN options.bcc.list, k \in DOMAIN emailHeaders :
                ~Includes(emailHeaders[k], options.bcc.list[i])
        /\ \A i \in DOMAIN options.bcc.list :
                validateEmail(options.bcc.list[i])
                    => RcptCount(options.bcc.list[i]) = 1

\* C1, amended: in an attempt that reaches the body of a message with bcc
\* addresses, the header section has no 'Bcc:' header and is the one the
\* same message without its bcc list gets, and the RCPT TO commands of the
\* bcc loop are one per bcc entry that passes validateEmail, in list order
C1_BccPrivacy ==
    (BodyWritten /\ options.bcc.given) =>
        /\ NoBccHeader
        /\ \E random \in RandomHex :
                emailHeaders =
                    MessageHeaders([options EXCEPT !.bcc = NoList],
                                   config.user, random)
        /\ Len(WrittenAt("rcptBcc")) = Len(ValidEntries(options.bcc))
        /\ \A i \in DOMAIN WrittenAt("rcptBcc") :
                WrittenAt("rcptBcc")[i].text
                    = C_RCPT \o ValidEntries(options.bcc)[i] \o <<62>>

\* a retry reaches the body of a message with two valid bcc entries and an
\* invalid one
C1_Witness ==
    /\ BodyWritten
    /\ attempts = 2
    /\ options.bcc.given
    /\ Len(ValidEntries(options.bcc)) = 2
    /\ Len(options.bcc.list) = 3

\* sendEmail has returned (close may have run since)
Returned == pc \in {"returned", "quit", "finally", "done"}

\* the attempt is over and no other follows: the catch block is deciding,
\* or sendEmail has returned
NoRetryAhead == pc = "catch" \/ Returned

\* C2 as stated: when secure is false and the EHLO response advertises
\* STARTTLS on any of its lines, every AUTH and MAIL FROM command of the
\* attempt is written on the TLS socket, after STARTTLS and a second EHLO
C2_AsStated ==
    \A i \in DOMAIN wire :
        (/\ ~config.secure
         /\ obs.advertised
         /\ wire[i].step \in AuthSteps \cup {"mail"})
        => /\ wire[i].tls
           /\ \E j \in 1..(i - 1) : wire[j].step = "starttls"
           /\ \E j \in 1..(i - 1) : wire[j].step = "ehlo2"

\* C3 as stated: once a command of the attempt was answered with a 5xx
\* code, the client neither sends RSET nor ends the socket for a retry: the
\* attempt is the last one
C3_AsStated == obs.got5xx => NoRetryAhead

\* C4 as stated: when every attempt was answered with a 4xx code,
\* sendEmail returns a failure after exactly maxRetries + 1 attempts and
\* maxRetries retry delays, and no delay precedes the first attempt
C4_AsStated ==
    /\ (pc = "returned" /\ obs.only4xx /\ attempts >= 1)
        => /\ attempts = config.maxRetries + 1
           /\ sleeps = config.maxRetries
           /\ result.settled /\ ~result.success
    /\ (attempts = 1 => sleeps = 0)

\* C5 as stated, for the 535 replies: once a step of the SASL exchange was
\* answered 535, whatever the text, the attempt is the last one
C5_AsStated ==
    (obs.authFailed /\ StartsWith(err, S_SmtpError \o CodeText(535)))
        => NoRetryAhead

\* the SendResult is set exactly when sendEmail has returned, and is then
\* a success with a message id or a failure with an error text
ResultShape ==
    /\ Returned =>
        /\ result.settled
        /\ \/ result.success /\ result.messageId # <<>>
                             /\ result.error = <<>>
           \/ ~result.success /\ result.error # <<>>
                              /\ result.messageId = <<>>
    /\ ~Returned => ~result.settled

\* C6 as stated: whatever the server and the network do, sendEmail resolves
\* to a SendResult, which is a success with a message id or a failure with
\* an error text
C6_AsStated ==
    /\ []ResultShape
    /\ (pc = "validate") ~> Returned

\* C7 as stated: every call of MikroMail.send eventually invokes close
C7_AsStated == (pc = "verifyMX") ~> obs.closeCalled

\* C8 as stated: connect() never stays pending for ever
C8_AsStated == (pc = "connecting") ~> (pc # "connecting")

\* C9 as stated: when sendEmail returns the size failure, DATA has not been
\* sent in that attempt
C9_AsStated ==
    (pc = "returned" /\ result.error = S_TooBig)
        => \A i \in DOMAIN wire : wire[i].step # "data"

\* the message fails the validation of sendEmail, in the words of C10
C10_Invalid ==
    \/ EffectiveFrom = <<>>
    \/ options.to = <<>>
    \/ options.subject = <<>>
    \/ (options.textLen = 0 /\ options.htmlLen = 0)
    \/ ~validateEmail(EffectiveFrom)
    \/ ~validateEmail(options.to)

\* C10: for a message that fails validation, sendEmail returns a failure
\* with no socket created, no command written, no delay slept and no
\* attempt made, and the fields of the client are as constructed
C10_PreNetworkValidation ==
    (C10_Invalid /\ pc \notin {"idle", "verifyMX", "validate"})
        => /\ pc \in {"returned", "finally", "done"}
           /\ result.settled /\ ~result.success
           /\ result.error \in {S_Missing, S_Invalid}
           /\ socks = <<>> /\ wire = <<>>
           /\ attempts = 0 /\ sleeps = 0
           /\ socket = 0 /\ ~connected
           /\ lastCommand = <<>> /\ serverCapabilities = <<>>
           /\ secureMode = config.secure /\ retryCount = 0

\* sendEmail has returned the address failure for a message whose to
\* address is malformed
C10_Witness ==
    /\ pc = "returned"
    /\ ~validateEmail(options.to)
    /\ options.to # <<>>
    /\ result.error = S_Invalid

\* `to` is a list of one or more addresses that all pass validateEmail
ToIsValidList ==
    /\ options.toArray.given
    /\ Len(options.toArray.list) >= 1
    /\ \A i \in DOMAIN options.toArray.list :
            validateEmail(options.toArray.list[i])

\* C11 as stated: when `to` is a list of one or more valid addresses,
\* sendEmail accepts it (it does not return the address failure), and an
\* attempt that reaches the body has sent one RCPT TO per element
C11_AsStated ==
    ToIsValidList =>
        /\ ~(result.settled /\ result.error = S_Invalid)
        /\ BodyWritten =>
                /\ Len(WrittenAt("rcptTo")) = Len(options.toArray.list)
                /\ \A i \in DOMAIN options.toArray.list :
                        RcptCount(options.toArray.list[i]) >= 1

\* the RCPT TO commands of the current attempt, in the order written
RcptCommands ==
    LET w == SelectSeq(wire, LAMBDA e :
                 e.step \in {"rcptTo", "rcptCc", "rcptBcc"})
    IN  [i \in 1..Len(w) |-> w[i].text]

\* the to address, the valid cc entries, the valid bcc entries
Envelope ==
    <<options.to>> \o ValidEntries(options.cc) \o ValidEntries(options.bcc)

\* one RCPT TO command per address of the envelope
EnvelopeCommands ==
    [i \in 1..Len(Envelope) |-> C_RCPT \o Envelope[i] \o <<62>>]

IsPrefix(a, b) == Len(a) <= Len(b) /\ a = SubSeq(b, 1, Len(a))

\* some cc or bcc entry of the message fails validateEmail
HasInvalidCopy ==
    \/ Len(ValidEntries(options.cc)) < Len(options.cc.list)
    \/ Len(ValidEntries(options.bcc)) < Len(options.bcc.list)

\* C12: in every attempt the RCPT TO commands written so far are the
\* beginning of: the to address, then the cc entries that pass validateEmail
\* in list order, then the bcc entries that pass validateEmail in list
\* order; once DATA is written they are exactly that sequence; and a
\* message whose from and to are valid is never refused for an invalid cc
\* or bcc entry
C12_EnvelopeExpansion ==
    /\ IsPrefix(RcptCommands, EnvelopeCommands)
    /\ (\E i \in DOMAIN wire : wire[i].step = "data")
            => RcptCommands = EnvelopeCommands
    /\ (HasInvalidCopy /\ validateEmail(EffectiveFrom)
            /\ validateEmail(options.to))
            => ~(result.settled /\ result.error = S_Invalid)

\* a message with an invalid cc entry and an invalid bcc entry was sent:
\* the attempt wrote the whole envelope and the call succeeded
C12_Witness ==
    /\ Len(ValidEntries(options.cc)) < Len(options.cc.list)
    /\ Len(ValidEntries(options.bcc)) < Len(options.bcc.list)
    /\ Len(ValidEntries(options.cc)) >= 1
    /\ Len(ValidEntries(options.bcc)) >= 2
    /\ result.settled /\ result.success
    /\ RcptCommands = EnvelopeCommands

\* the steps whose command carries a credential under AUTH PLAIN or AUTH
\* LOGIN
CredentialSteps ==
    {"authPlain", "authLogin", "authLoginUser", "authLoginPass"}

\* C13 as stated: the AUTH PLAIN command, the AUTH LOGIN command and both
\* follow-ups of AUTH LOGIN are logged as '[Credentials hidden]', and no
\* logged command line contains the password, plain or in base64
C13_AsStated ==
    \A i \in DOMAIN wire :
        /\ wire[i].step \in CredentialSteps
                => wire[i].log = S_LogCommand \o S_Hidden
        /\ ~Includes(wire[i].log, config.password)
        /\ ~Includes(wire[i].log, Base64(config.password))

\* the methods named on the AUTH line of an EHLO response (the first line
\* after the greeting line whose keyword is AUTH), in upper case; none when
\* the response has no AUTH line
ListedMethods(lines) ==
    LET keyword(i) == ToUpperCase(SubSeq(lines[i], 5, Len(lines[i])))
        auth == {i \in 2..Len(lines) : StartsWith(keyword(i), T_AUTHsp)}
        first == CHOOSE i \in auth : \A j \in auth : i <= j
    IN  IF auth = {} THEN {}
        ELSE Range(Tail(Split(keyword(first), 32)))

\* C15 as stated: the authentication exchange the client starts is
\* CRAM-MD5 when the AUTH line of the last EHLO response lists it, else
\* LOGIN when listed, else PLAIN (also when there is no AUTH line)
C15_AsStated ==
    pc \in {"authCram", "authLogin", "authPlain"} =>
        pc = IF T_CRAM \in ListedMethods(obs.ehlo) THEN "authCram"
             ELSE IF T_LOGIN \in ListedMethods(obs.ehlo) THEN "authLogin"
             ELSE "authPlain"

\* C16 as stated: whenever a command has been written, every command written
\* before it has received its complete response
C16_AsStated ==
    \A i \in DOMAIN wire : \A j \in 1..(i - 1) : wire[j].answered

\* C17 as stated: when a command was rejected for the command timeout, the
\* socket the command was written to is destroyed, and the command was
\* written once
C17_AsStated ==
    (pc = "catch" /\ StartsWith(err, S_CmdTimeout)) =>
        /\ socks[socket].st = "destroyed"
        /\ Cardinality({i \in DOMAIN wire : ~wire[i].answered}) = 1

\* the string holds no CR, LF or TAB
NoCrLfTab(s) == \A i \in DOMAIN s : s[i] \notin CrLfTab

\* how many of the header lines start with the given field name
LinesNamed(lines, name) ==
    Cardinality({k \in DOMAIN lines : StartsWith(lines[k], name)})

\* C14: for every input string the output of sanitizeHeader holds no CR, LF
\* or TAB, and in the headers composed for a message whose From, To,
\* Subject, Cc, Reply-To and custom header value are that string, every
\* header is one line without CR, LF or TAB and each of these fields is
\* written once
C14_HeaderInjectionResistance ==
    /\ called = "sanitizeHeader" => NoCrLfTab(output)
    /\ called = "createEmailHeaders" =>
            /\ \A k \in DOMAIN output : NoCrLfTab(output[k])
            /\ \A name \in {T_From, T_To, T_Subject, T_Cc,
                              H_XNote \o <<58, 32>>} :
                    LinesNamed(output, name) = 1
            /\ LinesNamed(output, T_ReplyTo)
                    = (IF input = <<>> THEN 0 ELSE 1)

\* sanitizeHeader was called with 'a', LF, 'a' and returned 'a a'
C14_Witness ==
    /\ called = "sanitizeHeader"
    /\ input = <<97, 10, 97>>
    /\ output = <<97, 32, 97>>

\* the string is made of printable ASCII characters and spaces
Printable(s) == \A i \in DOMAIN s : s[i] >= 32 /\ s[i] <= 126

\* C18 as stated: in the encoding of a string of printable ASCII
\* characters short enough to need no soft break, every '=' stands as the
\* three characters '=3D' and every other character as itself
C18_AsStated ==
    (called = "encodeQuotedPrintable" /\ Printable(input)
        /\ Len(ReplaceEquals(input)) <= 75)
        => output = ReplaceEquals(input)

\* the string is made of printable ASCII characters and spaces, without '='
PrintableNoEquals(s) == Printable(s) /\ \A i \in DOMAIN s : s[i] # 61

\* the string with a soft line break, '=' CR LF, after every 75 characters
\* that are followed by another one
SoftWrapped(s) ==
    Flatten([i \in 1..Len(s) |->
                IF i > 1 /\ (i - 1) % 75 = 0 THEN <<61, 13, 10, s[i]>>
                ELSE <<s[i]>>],
            1, Len(s))

\* C19 as stated: a string of printable ASCII characters and spaces without
\* '=', of any length, is returned unchanged
C19_AsStated ==
    (called = "encodeQuotedPrintable" /\ PrintableNoEquals(input))
        => output = input

\* C19, amended: a string of printable ASCII characters and spaces without
\* '=' is returned unchanged when it has at most 75 characters, and
\* otherwise with a soft line break after every 75 characters that are
\* followed by another one
C19_Identity ==
    (called = "encodeQuotedPrintable" /\ PrintableNoEquals(input))
        => /\ Len(input) <= 75 => output = input
           /\ output = SoftWrapped(input)

\* a string of 151 letters was encoded: two soft line breaks were added
C19_Witness ==
    /\ called = "encodeQuotedPrintable"
    /\ PrintableNoEquals(input)
    /\ Len(input) = 151
    /\ Len(output) = 157

\* CR LF stands at positions k, k + 1 of s
LineBreakAt(s, k) ==
    k >= 1 /\ k < Len(s) /\ s[k] = 13 /\ s[k + 1] = 10

\* some line of s, the text between two CR LF, has more than 76 characters
HasLongLine(s) ==
    \E i \in 1..(Len(s) - 76) :
        \A k \in (i - 1)..(i + 76) : ~LineBreakAt(s, k)

\* every '=' of s is followed by two upper-case hexadecimal digits or by
\* CR LF
EscapesWhole(s) ==
    \A i \in DOMAIN s :
        s[i] = 61 =>
            \/ LineBreakAt(s, i + 1)
            \/ /\ i + 2 <= Len(s)
               /\ s[i + 1] \in Digits \cup (65..70)
               /\ s[i + 2] \in Digits \cup (65..70)

\* C20 as stated: no line of the output of encodeQuotedPrintable has more
\* than 76 characters before its CR LF, and no '=HH' escape is split
C20_AsStated ==
    called = "encodeQuotedPrintable" =>
        /\ ~HasLongLine(output)
        /\ EscapesWhole(output)

\* the string with every code unit above 127 replaced by '=HH' for each
\* byte of its UTF-8 form
Utf8Escaped(s) ==
    Flatten([i \in 1..Len(s) |->
                IF s[i] <= 127 THEN <<s[i]>>
                ELSE LET bytes == Utf8Unit(s[i])
                     IN  Flatten([k \in 1..Len(bytes) |->
                                     EncodeUnit(bytes[k])],
                                 1, Len(bytes))],
            1, Len(s))

\* C21 as stated: encodeHeaderValue returns an all-ASCII value unchanged and
\* any other value as '=?UTF-8?Q?' ... '?=' around the value with every
\* non-ASCII byte of its UTF-8 form written as '=' and two upper-case hex
\* digits
C21_AsStated ==
    called = "encodeHeaderValue" =>
        output = IF \A i \in DOMAIN input : input[i] <= 127
                 THEN input
                 ELSE <<61, 63, 85, 84, 70, 45, 56, 63, 81, 63>>
                      \o Utf8Escaped(input) \o <<63, 61>>

\* how many '@' the string holds
AtSigns(s) == Cardinality({i \in DOMAIN s : s[i] = 64})

\* C22 as stated: validateEmail returns false for every string that holds
\* no '@' or more than one
C22_AsStated ==
    (called = "validateEmail" /\ AtSigns(input) # 1) => output = FALSE

\* C23 as stated: when the configuration gives no port, the port the
\* constructor keeps is 465 if the secure flag it keeps is true and 587
\* otherwise, also when secure is left out
C23_AsStated ==
    (called = "constructor" /\ ~smtpConfiguration.port.given) =>
        output.port = IF output.secure THEN 465 ELSE 587

\* C24: with skipAuthentication, no command of an attempt belongs to an
\* AUTH exchange, starts with 'AUTH' or holds the password in base64, and
\* MAIL FROM is written directly after an answered EHLO
C24_SkipAuthentication ==
    config.skipAuthentication =>
        \A i \in DOMAIN wire :
            /\ wire[i].step \notin AuthSteps
            /\ ~StartsWith(wire[i].text, T_AUTH)
            /\ ~Includes(wire[i].text, Base64(config.password))
            /\ wire[i].step = "mail" =>
                    /\ i > 1
                    /\ wire[i - 1].step \in {"ehlo1", "ehlo2"}
                    /\ wire[i - 1].answered

\* with skipAuthentication, the server advertised AUTH after an upgrade and
\* MAIL FROM was written after the second EHLO
C24_Witness ==
    /\ config.skipAuthentication
    /\ ListedMethods(obs.ehlo) # {}
    /\ Len(wire) = 4
    /\ wire[3].step = "ehlo2"
    /\ wire[4].step = "mail"

\* the claim's test of a custom header name: only letters, digits and '-',
\* and not one of the seven reserved names in any letter case
NameAllowed(name) ==
    /\ name # <<>>
    /\ \A i \in DOMAIN name :
           \/ name[i] \in 48..57
           \/ name[i] \in 65..90
           \/ name[i] \in 97..122
           \/ name[i] = 45
    /\ [i \in DOMAIN name |->
            IF name[i] \in 65..90 THEN name[i] + 32 ELSE name[i]]
        \notin {<<102, 114, 111, 109>>, <<116, 111>>, <<99, 99>>,
                <<98, 99, 99>>, <<115, 117, 98, 106, 101, 99, 116>>,
                <<100, 97, 116, 101>>,
                <<109, 101, 115, 115, 97, 103, 101, 45, 105, 100>>}

\* the custom headers the claim lets through, in the order given
AllowedHeaders == SelectSeq(options.headers, LAMBDA e : NameAllowed(e.name))

\* the number of header lines createEmailHeaders writes before the custom
\* ones: From, To, Subject, Message-ID, Date, MIME-Version, and Cc and
\* Reply-To when given
StandardHeaderCount ==
    6 + (IF options.cc.given THEN 1 ELSE 0)
      + (IF options.replyTo # <<>> THEN 1 ELSE 0)

\* C25: once the headers of a message are composed, the lines between the
\* standard headers and the Content-Type line are exactly
\* "name: sanitized value" for the user-supplied headers whose name has only
\* letters, digits and '-' and is not from, to, cc, bcc, subject, date or
\* message-id in any letter case; every other user-supplied header is absent
C25_CustomHeaderFilter ==
    emailHeaders # <<>> =>
        /\ Len(emailHeaders) > StandardHeaderCount + Len(AllowedHeaders)
        /\ SubSeq(emailHeaders, StandardHeaderCount + 1,
                  StandardHeaderCount + Len(AllowedHeaders))
           = [i \in 1..Len(AllowedHeaders) |->
                 AllowedHeaders[i].name \o <<58, 32>>
                 \o sanitizeHeader(AllowedHeaders[i].value)]
        /\ StartsWith(emailHeaders[StandardHeaderCount
                                   + Len(AllowedHeaders) + 1],
                      <<67, 111, 110, 116, 101, 110, 116, 45, 84, 121, 112,
                        101, 58>>)

\* a message with one admissible custom header and four inadmissible ones
\* (reserved in another letter case, a space, an underscore) was delivered
C25_Witness ==
    /\ pc = "returned" /\ result.success
    /\ Len(options.headers) = 5
    /\ Len(AllowedHeaders) = 1
    /\ emailHeaders # <<>>
    /\ emailHeaders[StandardHeaderCount + 1] = H_XNote \o <<58, 32>> \o V_note

\* the flags of the command line, those that take a value and the toggles
ValueFlags == {F_host, F_user, F_password, F_port, F_retries}
ToggleFlags == {F_secure, F_debug}

\* the flag of a key
FlagOf(k) ==
    CASE k = "host" -> F_host
      [] k = "user" -> F_user
      [] k = "password" -> F_password
      [] k = "port" -> F_port
      [] k = "secure" -> F_secure
      [] k = "debug" -> F_debug
      [] k = "maxRetries" -> F_retries

\* an argument list every reading agrees on: the executable and the script
\* come first, and a flag that takes a value is the last token or is
\* followed by a token that is not a flag
PlainArgs(args) ==
    /\ Len(args) >= 2
    /\ \A i \in {1, 2} : args[i] \notin ValueFlags \cup ToggleFlags
    /\ \A i \in 3..(Len(args) - 1) :
           args[i] \in ValueFlags =>
               args[i + 1] \notin ValueFlags \cup ToggleFlags

\* a number written in decimal digits
IsDecimal(s) == s # <<>> /\ \A i \in DOMAIN s : s[i] \in 48..57

\* the values the command line gives a key: TRUE for a toggle that is
\* present, the token after the flag for host, user and password, its
\* number for port and retries when it is a number
CliValues(k, args) ==
    LET at == {i \in 3..Len(args) : args[i] = FlagOf(k)}
        valued == {i \in at : i < Len(args)}
    IN  IF k \in {"secure", "debug"} THEN {TRUE : i \in at}
        ELSE IF k \in {"port", "maxRetries"}
        THEN {DecimalValue(args[i + 1]) :
                 i \in {j \in valued : IsDecimal(args[j + 1])}}
        ELSE {args[i + 1] : i \in valued}

\* the built-in default of a key
BuiltIn(k) ==
    CASE k \in {"host", "user", "password"} -> <<>>
      [] k = "port" -> 465
      [] k = "secure" -> TRUE
      [] k = "debug" -> FALSE
      [] k = "maxRetries" -> 2

\* the values the claim allows a key: a command-line value, else the
\* value of the file, else the direct value, else the default
Precedence(k, o) ==
    IF CliValues(k, o.args) # {} THEN CliValues(k, o.args)
    ELSE IF o.file.exists /\ o.file.parses /\ o.file.content[k].given
    THEN {o.file.content[k].value}
    ELSE IF o.config[k].given THEN {o.config[k].value}
    ELSE {BuiltIn(k)}

\* C26 (as stated): Configuration.get() returns, for every key, the
\* command-line value if the flag was given with a valid value, else the
\* value of the configuration file if it defines the key, else the direct
\* value, else the default (port 465, secure true, debug false, maxRetries
\* 2), and it throws exactly when the merged host is empty
C26_AsStated ==
    (called = "Configuration.get" /\ PlainArgs(configurationOptions.args)) =>
        /\ output.threw <=> Precedence("host", configurationOptions) = {<<>>}
        /\ ~output.threw =>
               \A k \in ConfigurationKeys :
                   output.config[k] \in Precedence(k, configurationOptions)

\* the first EHLO of the attempt was answered 250 by a server that names
\* STARTTLS on no line of its response, and the client was configured
\* with secure false
CleartextOnly ==
    /\ ~config.secure
    /\ wire # <<>>
    /\ wire[1].step = "ehlo1"
    /\ wire[1].code = <<50, 53, 48>>
    /\ \A k \in DOMAIN wire[1].capabilities :
           ~Includes(ToUpperCase(wire[1].capabilities[k]), C_STARTTLS)

\* "MAIL FROM:<"
MailFromPrefix == <<77, 65, 73, 76, 32, 70, 82, 79, 77, 58, 60>>

\* what holds of an attempt once its EHLO was answered without STARTTLS
Fallback ==
    /\ \A i \in DOMAIN wire :
           /\ wire[i].step # "starttls"
           /\ ~Includes(wire[i].text, C_STARTTLS)
           /\ ~wire[i].tls
    /\ Len(wire) >= 2 =>
           IF config.skipAuthentication
           THEN StartsWith(wire[2].text, MailFromPrefix)
           ELSE wire[2].step \in AuthSteps
                /\ StartsWith(wire[2].text, T_AUTH)

\* C27: with secure false and a server that does not advertise STARTTLS,
\* the answer to EHLO raises no error and ends nothing; in the rest of the
\* attempt no STARTTLS command is written, the command after EHLO belongs
\* to the AUTH exchange, or is MAIL FROM when authentication is skipped, and
\* every command, MAIL FROM included, is written on the unencrypted socket
C27_CleartextFallback ==
    [][/\ CleartextOnly' => Fallback'
       /\ (~CleartextOnly /\ CleartextOnly') =>
              /\ err' = err
              /\ result' = result
              /\ connected' = connected
              /\ pc' \notin {"catch", "returned", "endSocket"}]_vars

\* a plain session without STARTTLS that authenticated and wrote MAIL FROM
C27_Witness ==
    /\ CleartextOnly
    /\ ~config.skipAuthentication
    /\ \E i \in DOMAIN wire :
           /\ wire[i].step = "mail"
           /\ ~wire[i].tls
           /\ wire[i - 1].step \in AuthSteps
           /\ wire[i - 1].code = <<50, 51, 53>>

\* the commands of the attempt that deliver the message: all but RSET and
\* QUIT
Delivery == SelectSeq(wire, LAMBDA w : w.step \notin {"rset", "quit"})

\* the place of a written command in the sequence EHLO, STARTTLS, EHLO,
\* AUTH exchange, MAIL FROM, RCPT TO, DATA, message body
Kind(w) ==
    IF StartsWith(w.text, <<69, 72, 76, 79, 32>>) THEN "EHLO"
    ELSE IF w.text = <<83, 84, 65, 82, 84, 84, 76, 83>> THEN "STARTTLS"
    ELSE IF StartsWith(w.text, <<77, 65, 73, 76, 32, 70, 82, 79, 77, 58>>)
    THEN "MAIL FROM"
    ELSE IF StartsWith(w.text, <<82, 67, 80, 84, 32, 84, 79, 58>>)
    THEN "RCPT TO"
    ELSE IF w.text = <<68, 65, 84, 65>> THEN "DATA"
    ELSE IF w.step \in AuthSteps THEN "AUTH"
    ELSE IF w.step = "body" THEN "body"
    ELSE "other"

\* what may stand directly after a command in the sequence
MayFollow(a, b) ==
    CASE a = "EHLO" -> b \in {"STARTTLS", "AUTH", "MAIL FROM"}
      [] a = "STARTTLS" -> b = "EHLO"
      [] a = "AUTH" -> b \in {"AUTH", "MAIL FROM"}
      [] a = "MAIL FROM" -> b = "RCPT TO"
      [] a = "RCPT TO" -> b \in {"RCPT TO", "DATA"}
      [] a = "DATA" -> b = "body"
      [] OTHER -> FALSE

\* the reply code a command of the sequence waits for: 250, but 220 for
\* STARTTLS, 354 for DATA, and 334 or 235 within the AUTH exchange
Awaited(w) ==
    CASE Kind(w) = "STARTTLS" -> {<<50, 50, 48>>}
      [] Kind(w) = "DATA" -> {<<51, 53, 52>>}
      [] Kind(w) = "AUTH" -> {<<51, 51, 52>>, <<50, 51, 53>>}
      [] OTHER -> {<<50, 53, 48>>}

TransientReplyCaught ==
    /\ pc = "catch"
    /\ StartsWith(err, <<83, 77, 84, 80, 32, 69, 114, 114, 111, 114, 58, 32,
                         52>>)
    /\ wire # <<>>
    /\ wire[Len(wire)].step \notin AuthSteps
    /\ retryCount < config.maxRetries

\* a step of the retry path: RSET is written only while connected, whatever
\* answers it (or no answer in time) leads to the end of the socket with
\* the error and the result untouched; then the socket is ended and the
\* client marked disconnected; an attempt after the first starts only after
\* a retry delay and with a new socket
RetryStep ==
    /\ (Len(wire') = Len(wire) + 1 /\ wire'[Len(wire')].text = C_RSET) =>
           connected /\ wire'[Len(wire')].step = "rset"
    /\ (pc = "rset" /\ pc' # "rset") =>
           pc' = "endSocket" /\ err' = err /\ result' = result
    /\ pc = "endSocket" =>
           /\ ~connected'
           /\ socket # 0 => socks'[socket].st # "open"
           /\ pc' = "loop"
    /\ (pc = "loop" /\ retryCount > 0 /\ pc' # "loop") =>
           pc' \in {"sleep", "returned"}
    /\ (pc = "sleep" /\ pc' # "sleep") => sleeps' = sleeps + 1
    /\ (pc = "try" /\ pc' # "try") =>
           /\ pc' = "connecting"
           /\ Len(socks') = Len(SelectSeq(socks, IsLive)) + 1
           /\ socket' = Len(socks')
           /\ socks'[socket'].st = "open"
           /\ ~socks'[socket'].upgraded

\* MAIL FROM of an attempt comes after the whole handshake of that attempt:
\* EHLO answered 250, STARTTLS and a second EHLO when the session is plain
\* and the client found STARTTLS among the capabilities, and an AUTH
\* exchange ended by 235 unless authentication is skipped
HandshakeBeforeMail ==
    \A i \in DOMAIN wire :
        wire[i].step = "mail" =>
            /\ i > 1
            /\ wire[1].step = "ehlo1" /\ wire[1].code = <<50, 53, 48>>
            /\ (~config.secure
                /\ IncludesSTARTTLS(parseCapabilities(wire[1].capabilities)))
               => /\ wire[2].step = "starttls" /\ wire[2].code = <<50, 50, 48>>
                  /\ wire[3].step = "ehlo2" /\ wire[3].code = <<50, 53, 48>>
            /\ IF config.skipAuthentication
               THEN wire[i - 1].step \in {"ehlo1", "ehlo2"}
               ELSE /\ wire[i - 1].step \in AuthSteps
                    /\ wire[i - 1].code = <<50, 51, 53>>

\* the retry path, for the failures the catch block does retry
RetryPath == [][RetryStep /\ HandshakeBeforeMail']_vars

\* C29 (as stated): after a transient failure in an attempt that is not the
\* last the client does not return: it writes RSET if it is still
\* connected, ignores what RSET yields, ends the socket and marks itself
\* disconnected; the next attempt waits retryDelay, opens a new connection
\* and repeats the whole handshake before MAIL FROM
C29_AsStated ==
    [][/\ TransientReplyCaught =>
              /\ result' = result
              /\ pc' = IF connected THEN "rset" ELSE "endSocket"
       /\ RetryStep
       /\ HandshakeBeforeMail']_vars

\* C30: with maxRetries >= 0, sendEmail makes at most maxRetries + 1
\* attempts, creates at most that many connections (never more than one in
\* an attempt) and sleeps at most maxRetries retry delays (one before each
\* attempt after the first); when the last allowed attempt fails, the
\* failure returned carries the error of that attempt (the error caught,
\* or the size failure found after DATA), never the text kept for a loop
\* that runs out
C30_RetryBound ==
  config.maxRetries >= 0 =>
    /\ attempts <= config.maxRetries + 1
    /\ connections <= attempts
    /\ sleeps <= config.maxRetries
    /\ sleeps <= attempts
    /\ attempts >= 1 => sleeps >= attempts - 2
    /\ (result.settled /\ ~result.success /\ attempts >= 1) =>
           /\ result.error # <<77, 97, 120, 105, 109, 117, 109, 32, 114, 101,
                               116, 114, 121, 32, 99, 111, 117, 110, 116, 32,
                               101, 120, 99, 101, 101, 100, 101, 100>>
           /\ attempts = config.maxRetries + 1 =>
                  IF err # <<>> THEN result.error = err
                  ELSE /\ result.error = S_TooBig
                       /\ \E i \in DOMAIN wire :
                              /\ wire[i].text = <<68, 65, 84, 65>>
                              /\ wire[i].code = <<51, 53, 52>>

\* sendEmail with maxRetries 1 made two attempts on two connections, slept
\* one retry delay and returned the error of the second attempt
C30_Witness ==
    /\ pc = "returned"
    /\ config.maxRetries = MaxRetriesBound
    /\ attempts = config.maxRetries + 1
    /\ connections = config.maxRetries + 1
    /\ sleeps = config.maxRetries
    /\ result.settled /\ ~result.success
    /\ err # <<>>
    /\ result.error = err

\* "QUIT"
QuitText == <<81, 85, 73, 84>>

\* a step of close: QUIT is written only while connected and only by close;
\* whatever answers QUIT, or no answer in time, leads to the finally block
\* with the result untouched; the finally block ends the call
CloseStep ==
    /\ (Len(wire') = Len(wire) + 1 /\ wire'[Len(wire')].text = QuitText) =>
           connected /\ obs.closeCalled
    /\ (pc = "returned" /\ pc' # "returned") =>
           /\ pc' \in {"quit", "finally"}
           /\ pc' = "quit" <=> connected
    /\ (pc = "quit" /\ pc' # "quit") =>
           pc' = "finally" /\ result' = result
    /\ (pc = "finally" /\ pc' # "finally") => pc' = "done"
    /\ pc = "done" => pc' = "done"

\* what holds once close has returned: socket is null, connected is false,
\* no socket is left open, and the result of sendEmail is the one returned;
\* on a client that never connected nothing was written and no socket
\* exists
Closed ==
    pc = "done" =>
        /\ socket = 0
        /\ ~connected
        /\ ~pending
        /\ \A i \in DOMAIN socks : socks[i].st # "open"
        /\ result.settled
        /\ connections = 0 => wire = <<>> /\ socks = <<>>

\* C31: close never throws; it sends QUIT only if the client is connected;
\* after it returns, whether QUIT was answered 221, answered with another
\* code or timed out, the socket is destroyed, socket is null and connected
\* is false; on a client that never connected it does nothing
C31_Close == [][CloseStep /\ Closed']_vars

\* close has returned after a QUIT that was not answered 221
C31_Witness ==
    /\ pc = "done"
    /\ wire # <<>>
    /\ wire[Len(wire)].text = QuitText
    /\ wire[Len(wire)].code # <<50, 50, 49>>
    /\ connections >= 1
    /\ socket = 0 /\ ~connected

\* sendEmail has just returned the failure of a 5xx reply
PermanentFailureReturned ==
    /\ pc = "returned"
    /\ result.settled /\ ~result.success
    /\ StartsWith(result.error,
                  <<83, 77, 84, 80, 32, 69, 114, 114, 111, 114, 58, 32, 53>>)

\* C32 (as stated): no socket exists before the first attempt, and when
\* sendEmail returns the failure of a permanent error (here a 5xx reply)
\* the socket has been destroyed
C32_AsStated ==
    /\ attempts = 0 => socket = 0 /\ socks = <<>>
    /\ PermanentFailureReturned =>
           \/ socket = 0
           \/ socks[socket].st \in {"destroyed", "closed"}

\* the error caught is a failure of TLS: the STARTTLS upgrade failed
\* ("STARTTLS error: ...", "TLS certificate verification failed: ..."), or
\* the handshake of an implicit-TLS connection did ("SMTP connection
\* error: certificate ...")
TlsFailure(e) ==
    \/ StartsWith(e, <<83, 84, 65, 82, 84, 84, 76, 83, 32, 101, 114, 114,
                       111, 114, 58, 32>>)
    \/ StartsWith(e, <<84, 76, 83, 32, 99, 101, 114, 116, 105, 102, 105, 99,
                       97, 116, 101, 32, 118, 101, 114, 105, 102, 105, 99,
                       97, 116, 105, 111, 110, 32, 102, 97, 105, 108, 101,
                       100>>)
    \/ /\ config.secure
       /\ StartsWith(e, <<83, 77, 84, 80, 32, 99, 111, 110, 110, 101, 99,
                          116, 105, 111, 110, 32, 101, 114, 114, 111, 114,
                          58, 32, 99, 101, 114, 116, 105, 102, 105, 99, 97,
                          116, 101>>)

\* C33 (as stated): an attempt that fails with a TLS failure is the last:
\* the catch block returns the failure; it never goes on to RSET, to the
\* end of the socket and to another attempt
C33_AsStated ==
    TlsFailure(err) =>
        /\ pc \in {"catch", "returned", "quit", "finally", "done"}
        /\ pc # "catch" => result.settled /\ ~result.success

\* the value of the Message-ID header line that createEmailHeaders wrote for
\* the attempt: the line is the fourth of the header section
GeneratedMessageId == SubSeq(emailHeaders[4], Len(T_MsgId) + 1, Len(emailHeaders[4]))

\* '<' 32 lowercase hex digits '@' domain '>'
MessageIdForm(id, domain) ==
    /\ Len(id) = 1 + 32 + 1 + Len(domain) + 1
    /\ id[1] = 60
    /\ \A i \in 2..33 : id[i] \in (48..57) \cup (97..102)
    /\ id[34] = 64
    /\ SubSeq(id, 35, Len(id) - 1) = domain
    /\ id[Len(id)] = 62

\* C34: when sendEmail returns success, the messageId of the result is the
\* value of the Message-ID header generated for the accepted attempt, and it
\* is '<' 32 lowercase hex digits '@' domain '>' with the domain of config.user
\* or 'localhost', whatever the subject and the custom headers of the message
C34_AsStated ==
    (pc = "returned" /\ result.settled /\ result.success) =>
        /\ SubSeq(emailHeaders[4], 1, Len(T_MsgId)) = T_MsgId
        /\ result.messageId = GeneratedMessageId
        /\ MessageIdForm(result.messageId, MessageIdDomain(config.user))

\* a 'close' event that a socket other than the client's current, open and
\* greeted one delivers: the socket of an earlier attempt, ended before the
\* retry
StaleClose ==
    /\ socket # 0
    /\ socks[socket].st = "open"
    /\ connected
    /\ \E i \in DOMAIN socks : i # socket /\ OnClose(i)

\* C35: a 'close' event of the socket of an earlier attempt that arrives
\* after the next connection has been greeted leaves connected true, so the
\* next command is not refused with 'Not connected to SMTP server'
C35_AsStated == [][StaleClose => connected']_vars

\* C36: within one sendEmail call the server accepts the message body at
\* most once, also when the body was written and its 250 was lost or came
\* after the command timeout and the call went on to a retry
C36_AsStated == obs.accepted <= 1

\* CR, LF, space, '<' and '>'
LineBreakers == {13, 10, 32, 60, 62}

\* C37: an address that passes validateEmail contains no CR, LF, '<', '>' or
\* space, so 'MAIL FROM:<address>' and 'RCPT TO:<address>' are one line each
C37_AsStated ==
    (called = "validateEmail" /\ output = TRUE) =>
        \A i \in 1..Len(input) : input[i] \notin LineBreakers

\* the commands that carry a credential: AUTH PLAIN with its payload, the
\* base64 user name and password of AUTH LOGIN, the CRAM-MD5 response
CredentialTexts ==
    {CommandText(p) : p \in {"authPlain", "authLoginUser", "authLoginPass",
                             "authCramResp"}} \ {<<>>}

\* C38: the error text of a failure result, which the facade logs after
\* 'Failed to send email: ', never contains the text of a command that
\* carries a credential, also when such a command timed out
C38_AsStated ==
    (result.settled /\ ~result.success) =>
        \A t \in CredentialTexts : ~Includes(result.error, t)

\* the EHLO commands of the attempt that were answered 250, by wire index
AnsweredEhlos ==
    {j \in DOMAIN wire : /\ wire[j].step \in {"ehlo1", "ehlo2"}
                         /\ wire[j].answered
                         /\ wire[j].code = <<50, 53, 48>>}

\* the last of them before wire index i
LastEhloBefore(i) ==
    CHOOSE j \in AnsweredEhlos :
        j < i /\ \A k \in AnsweredEhlos : k < i => k <= j

\* the first step of the exchange of an authentication method
FirstStepOf(method) ==
    CASE method = "CRAM-MD5" -> "authCram"
      [] method = "LOGIN" -> "authLogin"
      [] OTHER -> "authPlain"

\* C39: each EHLO response replaces the capability list, and the
\* authentication method is chosen from the last EHLO response of the current
\* connection alone: after an upgrade that is the response given inside the
\* TLS session, whatever was advertised before it or in an earlier attempt
C39_CapabilitiesReplaced ==
    /\ AnsweredEhlos # {} =>
            serverCapabilities =
                CapabilitiesFrom(
                    wire[LastEhloBefore(Len(wire) + 1)].capabilities, 2)
    /\ \A i \in DOMAIN wire :
            wire[i].step \in {"authPlain", "authLogin", "authCram"} =>
                /\ \E j \in AnsweredEhlos : j < i
                /\ wire[i].step =
                    FirstStepOf(getBestAuthMethod(
                        CapabilitiesFrom(
                            wire[LastEhloBefore(i)].capabilities, 2)))
                /\ (\E j \in DOMAIN wire : wire[j].step = "ehlo2") =>
                        /\ wire[LastEhloBefore(i)].step = "ehlo2"
                        /\ wire[LastEhloBefore(i)].tls

\* in a second attempt, an upgraded session whose EHLO response names
\* CRAM-MD5 after a plain response that named other methods: the CRAM-MD5
\* exchange has been started
C39_Witness ==
    /\ attempts = 2
    /\ \E i, j, k \in DOMAIN wire :
        /\ i < j /\ j < k
        /\ wire[i].step = "ehlo1" /\ wire[i].capabilities = <<L_host, L_authCont, L_tlsEnd>>
        /\ wire[j].step = "ehlo2" /\ wire[j].capabilities = <<L_host, L_authCramEnd>>
        /\ wire[k].step = "authCram" /\ wire[k].tls

\* a step that writes a command: sendCommand appends it to the wire
WritesCommand == Len(wire') = Len(wire) + 1

\* C40: whenever a command is written, secureMode is true exactly when the
\* current socket is a TLS socket (connected with tls.connect, or upgraded);
\* the greeting of every connection sets secureMode to config.secure, so a
\* retry with secure = false starts again in the clear and negotiates
\* STARTTLS again, and an upgrade that fails leaves secureMode false
C40_SecureMode ==
    [][/\ WritesCommand => (secureMode <=> SocketIsTLS)
       /\ (pc = "connecting" /\ pc' = "ehlo1") =>
                /\ secureMode' = config.secure
                /\ SocketIsTLS' <=> config.secure
       /\ (pc = "upgrading" /\ pc' = "catch") =>
                ~secureMode' /\ ~SocketIsTLS']_vars

\* secure = false: the first attempt upgraded its socket, and the second
\* attempt has written STARTTLS in the clear and a later command inside TLS
C40_Witness ==
    /\ ~config.secure
    /\ attempts = 2
    /\ secureMode
    /\ \E i \in DOMAIN socks : i # socket /\ socks[i].upgraded
    /\ \E j, k \in DOMAIN wire :
        /\ j < k
        /\ wire[j].step = "starttls" /\ ~wire[j].tls
        /\ wire[k].tls

=========================================================================
